---- MODULE Spec2Model ----
(***************************************************************************)
(* Model of the form-check pose analysis pipeline (poseDetection.ts and    *)
(* its older JavaScript twin poseDetection.js): the metrics extractor, the *)
(* exercise configs, and the analyzeExerciseVideo run.                     *)
(*                                                                         *)
(* Units.  Coordinates and visibilities are hundredths (0.55 -> 55).       *)
(* Angles inside the geometry helpers are millidegrees; angle metrics are  *)
(* tenths of a degree (toFixed(1)); heights are thousandths (toFixed(3));  *)
(* travel and deviation are tenths of a percent (toFixed(1)); rise rates   *)
(* are ten-thousandths (toFixed(4)); riseRateRatio is hundredths           *)
(* (toFixed(2)).                                                           *)
(***************************************************************************)
EXTENDS Integers, Sequences, FiniteSets, TLC

\* ------------------------------------------------------------------------
\* Bounds of the model
\* ------------------------------------------------------------------------
\* Largest frameCount argument of a run.
MaxFrames == 3

\* Longest metrics sequence handed to a function applied on its own.
MaxSeq == 3

\* Most landmarks whose visibility departs from the test pose's.
MaxAltered == 2

\* Largest frameCount whose time points are computed on their own (the
\* default frameCount of analyzeExerciseVideo).
MaxSamples == 8

\* frameCount of each of two runs in flight together.
TwoRunFrames == 2

\* How far a statistic handed to detectRiskFlags lies from its threshold, in
\* units of its last reported digit.
RiskMargin == 1

\* Longest sequence handed to the analysis on its own.
MaxAnalysisSeq == 3

\* Most handleFile calls of VideoUploader awaiting their video's metadata.
MaxHandleFiles == 2

\* Most handleAnalyze calls of the view in flight.
MaxAnalyses == 2

\* Most object URLs created on the page.
MaxObjectUrls == 5

\* ------------------------------------------------------------------------
\* JavaScript values
\* ------------------------------------------------------------------------
\* The number NaN (every other number of the model is far above it).
NaN == -999999999

\* A landmark whose optional visibility field is undefined.
UndefinedVis == -1

\* null, as returned by the metrics extractor and the temporal analyzers.
NULL == [null |-> TRUE]

\* An exception leaving a function.
THROW == [throw |-> "TypeError"]

\* Truthiness of a number-or-undefined (0, NaN and undefined are falsy).
Truthy(v) == v # UndefinedVis /\ v # 0 /\ v # NaN

\* a < b and a >= b on number-or-undefined operands: a comparison with
\* undefined (ToNumber gives NaN) is false.
JsLt(a, b) == a # UndefinedVis /\ a # NaN /\ b # NaN /\ a < b

JsGe(a, b) == a # UndefinedVis /\ a # NaN /\ b # NaN /\ a >= b

JsGt(a, b) == a # UndefinedVis /\ a # NaN /\ b # NaN /\ a > b

\* n / d rounded to the nearest integer, halves away from zero: what
\* Number.prototype.toFixed does to the scaled quotient.
RoundDiv(n, d) ==
  LET an == IF n < 0 THEN -n ELSE n
      ad == IF d < 0 THEN -d ELSE d
      q  == (2 * an + ad) \div (2 * ad)
  IN IF (n < 0) # (d < 0) THEN -q ELSE q

Abs(n) == IF n < 0 THEN -n ELSE n

\* Math.max(...xs) and Math.min(...xs) of a non-empty list: NaN if any
\* element is NaN.
RECURSIVE MathMax(_)
MathMax(xs) ==
  IF Len(xs) = 1 THEN xs[1]
  ELSE LET r == MathMax(Tail(xs))
       IN IF xs[1] = NaN \/ r = NaN THEN NaN
          ELSE IF xs[1] >= r THEN xs[1] ELSE r

RECURSIVE MathMin(_)
MathMin(xs) ==
  IF Len(xs) = 1 THEN xs[1]
  ELSE LET r == MathMin(Tail(xs))
       IN IF xs[1] = NaN \/ r = NaN THEN NaN
          ELSE IF xs[1] <= r THEN xs[1] ELSE r

\* String.prototype.toLowerCase on a string held as a sequence of characters.
UpperToLower ==
  "A" :> "a" @@ "B" :> "b" @@ "C" :> "c" @@ "D" :> "d" @@ "E" :> "e" @@
  "F" :> "f" @@ "G" :> "g" @@ "H" :> "h" @@ "I" :> "i" @@ "J" :> "j" @@
  "K" :> "k" @@ "L" :> "l" @@ "M" :> "m" @@ "N" :> "n" @@ "O" :> "o" @@
  "P" :> "p" @@ "Q" :> "q" @@ "R" :> "r" @@ "S" :> "s" @@ "T" :> "t" @@
  "U" :> "u" @@ "V" :> "v" @@ "W" :> "w" @@ "X" :> "x" @@ "Y" :> "y" @@
  "Z" :> "z"

toLowerCase(s) ==
  [k \in 1..Len(s) |-> IF s[k] \in DOMAIN UpperToLower THEN UpperToLower[s[k]] ELSE s[k]]

\* ------------------------------------------------------------------------
\* Constants of poseDetection
\* ------------------------------------------------------------------------
NOSE == 0

RIGHT_EAR == 8

RIGHT_SHOULDER == 12

RIGHT_WRIST == 16

RIGHT_HIP == 24

RIGHT_KNEE == 26

RIGHT_ANKLE == 28

VISIBILITY_DEFAULT == 50

RELAXED_KNEE == 25

RELAXED_ANKLE == 10

\* ------------------------------------------------------------------------
\* Geometry helpers
\* ------------------------------------------------------------------------
\* Math.acos(dot / (mag1 * mag2)) in millidegrees, keyed by the dot product
\* and the two squared magnitudes, for the vectors of the modelled poses and
\* of the grid points.
AcosTable ==
  <<-500, 625, 400>> :> 180000 @@
  <<-400, 400, 400>> :> 180000 @@
  <<-250, 625, 125>> :> 153435 @@
  <<-224, 226, 226>> :> 172372 @@
  <<-220, 250, 226>> :> 157751 @@
  <<-200, 400, 100>> :> 180000 @@
  <<-150, 226, 100>> :> 176186 @@
  <<-100, 125, 100>> :> 153435 @@
  <<-75, 125, 125>> :> 126870 @@
  <<-50, 50, 50>> :> 180000 @@
  <<-42, 333, 8>> :> 144462 @@
  <<-32, 178, 8>> :> 147995 @@
  <<-25, 25, 25>> :> 180000 @@
  <<-25, 25, 50>> :> 135000 @@
  <<-25, 25, 125>> :> 116565 @@
  <<-25, 50, 25>> :> 135000 @@
  <<-25, 125, 25>> :> 116565 @@
  <<-22, 73, 8>> :> 155556 @@
  <<25, 25, 25>> :> 0 @@
  <<25, 25, 50>> :> 45000 @@
  <<25, 25, 125>> :> 63435 @@
  <<25, 50, 25>> :> 45000 @@
  <<25, 50, 125>> :> 71565 @@
  <<25, 125, 25>> :> 63435 @@
  <<25, 125, 50>> :> 71565 @@
  <<50, 25, 100>> :> 0 @@
  <<50, 25, 125>> :> 26565 @@
  <<50, 25, 200>> :> 45000 @@
  <<50, 50, 50>> :> 0 @@
  <<50, 50, 100>> :> 45000 @@
  <<50, 100, 25>> :> 0 @@
  <<50, 100, 50>> :> 45000 @@
  <<50, 100, 125>> :> 63435 @@
  <<50, 125, 25>> :> 26565 @@
  <<50, 125, 100>> :> 63435 @@
  <<50, 200, 25>> :> 45000 @@
  <<75, 50, 125>> :> 18435 @@
  <<75, 125, 50>> :> 18435 @@
  <<75, 125, 125>> :> 53130 @@
  <<100, 50, 200>> :> 0 @@
  <<100, 100, 100>> :> 0 @@
  <<100, 100, 125>> :> 26565 @@
  <<100, 100, 200>> :> 45000 @@
  <<100, 125, 100>> :> 26565 @@
  <<100, 125, 125>> :> 36870 @@
  <<100, 200, 50>> :> 0 @@
  <<100, 200, 100>> :> 45000 @@
  <<125, 125, 125>> :> 0 @@
  <<150, 125, 200>> :> 18435 @@
  <<150, 200, 125>> :> 18435 @@
  <<200, 200, 200>> :> 0

\* Math.atan2(|dx|, |dy|) in millidegrees off the two axes.
AtanTable ==
  <<5, 10>> :> 26565 @@
  <<5, 15>> :> 18435 @@
  <<10, 5>> :> 63435

\* Math.acos of the normalized dot product; 0/0 is NaN and acos(NaN) is NaN.
\* The quotient is taken exactly: its rounding in double precision is not
\* modelled.
AcosDeg(dot, m1sq, m2sq) ==
  IF m1sq = 0 \/ m2sq = 0 THEN NaN
  ELSE IF dot = 0 THEN 90000
  ELSE AcosTable[<<dot, m1sq, m2sq>>]

\* Math.atan2(a, b) * (180 / Math.PI) for a, b >= 0.
Atan2Deg(a, b) ==
  IF a = 0 THEN 0
  ELSE IF b = 0 THEN 90000
  ELSE IF a = b THEN 45000
  ELSE AtanTable[<<a, b>>]

calculateAngle(point1, vertex, point2) ==
  LET v1x == point1.x - vertex.x
      v1y == point1.y - vertex.y
      v1z == point1.z - vertex.z
      v2x == point2.x - vertex.x
      v2y == point2.y - vertex.y
      v2z == point2.z - vertex.z
      dotProduct == v1x * v2x + v1y * v2y + v1z * v2z
      mag1sq == v1x * v1x + v1y * v1y + v1z * v1z
      mag2sq == v2x * v2x + v2y * v2y + v2z * v2z
  IN AcosDeg(dotProduct, mag1sq, mag2sq)

calculateAngleFromVertical(point1, point2) ==
  LET dx == point2.x - point1.x
      dy == point2.y - point1.y
      angleFromHorizontal == Atan2Deg(Abs(dx), Abs(dy))
  IN 90000 - angleFromHorizontal

\* 1 - landmark.y, in hundredths.
calculateHeight(landmark) == 100 - landmark.y

\* parseFloat(v.toFixed(1)) of an angle in millidegrees: tenths of a degree.
toFixed1(md) == IF md = NaN THEN NaN ELSE RoundDiv(md, 100)

\* parseFloat(v.toFixed(3)) of a height in hundredths: thousandths.
toFixed3(h) == RoundDiv(h * 1000, 100)

\* parseFloat(v.toFixed(1)) of a percentage, v = n / 100 * 100: tenths.
toFixed1Pct(n) == RoundDiv(n * 10, 1)

\* ------------------------------------------------------------------------
\* Exercise configurations
\* ------------------------------------------------------------------------
SQUAT_CONFIG ==
  [ name |-> "Squat",
    requiredLandmarks |->
      << [name |-> "shoulder", index |-> RIGHT_SHOULDER],
         [name |-> "hip", index |-> RIGHT_HIP],
         [name |-> "knee", index |-> RIGHT_KNEE],
         [name |-> "ankle", index |-> RIGHT_ANKLE],
         [name |-> "nose", index |-> NOSE],
         [name |-> "ear", index |-> RIGHT_EAR] >>,
    visibilityThresholds |-> [ankle |-> RELAXED_ANKLE, knee |-> RELAXED_KNEE],
    riskThresholds |->
      [ maxTorsoLean |-> 450, riseRateRatio |-> 120, neckExtensionMax |-> 300,
        minHipAngle |-> 1000, maxKneeForwardTravel |-> 150 ] ]

DEADLIFT_CONFIG ==
  [ name |-> "Deadlift",
    requiredLandmarks |->
      << [name |-> "shoulder", index |-> RIGHT_SHOULDER],
         [name |-> "hip", index |-> RIGHT_HIP],
         [name |-> "knee", index |-> RIGHT_KNEE],
         [name |-> "ankle", index |-> RIGHT_ANKLE],
         [name |-> "nose", index |-> NOSE],
         [name |-> "ear", index |-> RIGHT_EAR],
         [name |-> "wrist", index |-> RIGHT_WRIST] >>,
    visibilityThresholds |->
      [ankle |-> RELAXED_ANKLE, knee |-> RELAXED_KNEE, wrist |-> RELAXED_ANKLE],
    riskThresholds |->
      [ maxBackAngle |-> 500, backAngleChange |-> 150, riseRateRatio |-> 130,
        maxBarPathDeviation |-> 80, neckExtensionMax |-> 350 ] ]

\* The value undefined.
UNDEFINED == [undefined |-> TRUE]

\* Property names the registry object literal inherits from Object.prototype,
\* with the (truthy, config-less) values they hold.
ObjectPrototypeKeys ==
  { <<"c","o","n","s","t","r","u","c","t","o","r">>,
    <<"t","o","S","t","r","i","n","g">>,
    <<"v","a","l","u","e","O","f">> }

OBJECT_PROTOTYPE_MEMBER == [name |-> "Object"]

SquatKey == <<"s","q","u","a","t">>

DeadliftKey == <<"d","e","a","d","l","i","f","t">>

\* Object.keys(EXERCISE_CONFIGS): the own keys, in insertion order.
EXERCISE_CONFIGS_KEYS == <<SquatKey, DeadliftKey>>

\* The own properties the registry object literal is created with.
EXERCISE_CONFIGS_OWN == SquatKey :> SQUAT_CONFIG @@ DeadliftKey :> DEADLIFT_CONFIG

\* object[key] of an object with these own properties: an own property, else
\* one found on the prototype chain, else undefined.
GetProperty(own, key) ==
  IF key \in DOMAIN own THEN own[key]
  ELSE IF key \in ObjectPrototypeKeys THEN OBJECT_PROTOTYPE_MEMBER
  ELSE UNDEFINED

\* EXERCISE_CONFIGS[key] of the registry as created.
EXERCISE_CONFIGS(key) == GetProperty(EXERCISE_CONFIGS_OWN, key)

\* exerciseConfig.requiredLandmarks is an object (Object.entries accepts it).
HasRequiredLandmarks(exerciseConfig) == "requiredLandmarks" \in DOMAIN exerciseConfig

\* ------------------------------------------------------------------------
\* Landmarks: a dense array of the given length; pts holds the entries the
\* configs read.  landmarks[index] is undefined at and beyond length.
\* ------------------------------------------------------------------------
UsedIdx == {NOSE, RIGHT_EAR, RIGHT_SHOULDER, RIGHT_WRIST, RIGHT_HIP, RIGHT_KNEE, RIGHT_ANKLE}

IsMissing(landmarks, index) == index >= landmarks.length

\* landmarkRefs: role name -> landmark (read only where not missing).
LandmarkRef(landmarks, exerciseConfig, role) ==
  LET e == CHOOSE r \in {exerciseConfig.requiredLandmarks[k] :
                          k \in 1..Len(exerciseConfig.requiredLandmarks)} : r.name = role
  IN landmarks.pts[e.index]

\* SQUAT_CONFIG.calculateMetrics
SquatCalculateMetrics(landmarks, exerciseConfig) ==
  LET shoulder == LandmarkRef(landmarks, exerciseConfig, "shoulder")
      hip      == LandmarkRef(landmarks, exerciseConfig, "hip")
      knee     == LandmarkRef(landmarks, exerciseConfig, "knee")
      ankle    == LandmarkRef(landmarks, exerciseConfig, "ankle")
      nose     == LandmarkRef(landmarks, exerciseConfig, "nose")
      ear      == LandmarkRef(landmarks, exerciseConfig, "ear")
      hipAngle == calculateAngle(shoulder, hip, knee)
      kneeAngle == calculateAngle(hip, knee, ankle)
      belowAnkle == calculateAngle(knee, ankle, [x |-> ankle.x, y |-> ankle.y + 10, z |-> ankle.z])
      ankleAngle == IF belowAnkle = NaN THEN NaN ELSE 180000 - belowAnkle
      torsoLean == calculateAngleFromVertical(shoulder, hip)
      neckAngle == calculateAngle(shoulder, ear, nose)
      hipHeight == calculateHeight(hip)
      shoulderHeight == calculateHeight(shoulder)
      kneeForwardTravel == knee.x - ankle.x
  IN [ hipAngle |-> toFixed1(hipAngle),
       kneeAngle |-> toFixed1(kneeAngle),
       ankleAngle |-> toFixed1(ankleAngle),
       torsoLean |-> toFixed1(torsoLean),
       neckAngle |-> toFixed1(neckAngle),
       hipHeight |-> toFixed3(hipHeight),
       shoulderHeight |-> toFixed3(shoulderHeight),
       kneeForwardTravel |-> toFixed1Pct(kneeForwardTravel) ]

\* DEADLIFT_CONFIG.calculateMetrics
DeadliftCalculateMetrics(landmarks, exerciseConfig) ==
  LET shoulder == LandmarkRef(landmarks, exerciseConfig, "shoulder")
      hip      == LandmarkRef(landmarks, exerciseConfig, "hip")
      knee     == LandmarkRef(landmarks, exerciseConfig, "knee")
      ankle    == LandmarkRef(landmarks, exerciseConfig, "ankle")
      nose     == LandmarkRef(landmarks, exerciseConfig, "nose")
      ear      == LandmarkRef(landmarks, exerciseConfig, "ear")
      wrist    == LandmarkRef(landmarks, exerciseConfig, "wrist")
      hipAngle == calculateAngle(shoulder, hip, knee)
      kneeAngle == calculateAngle(hip, knee, ankle)
      backAngle == calculateAngleFromVertical(shoulder, hip)
      neckAngle == calculateAngle(shoulder, ear, nose)
      hipHeight == calculateHeight(hip)
      shoulderHeight == calculateHeight(shoulder)
      wristHeight == calculateHeight(wrist)
      barPathDeviation == Abs(wrist.x - ankle.x)
  IN [ hipAngle |-> toFixed1(hipAngle),
       kneeAngle |-> toFixed1(kneeAngle),
       backAngle |-> toFixed1(backAngle),
       neckAngle |-> toFixed1(neckAngle),
       hipHeight |-> toFixed3(hipHeight),
       shoulderHeight |-> toFixed3(shoulderHeight),
       wristHeight |-> toFixed3(wristHeight),
       barPathDeviation |-> toFixed1Pct(barPathDeviation) ]

\* exerciseConfig.calculateMetrics(landmarks, landmarkRefs)
calculateMetrics(landmarks, exerciseConfig) ==
  IF exerciseConfig.name = "Squat"
  THEN SquatCalculateMetrics(landmarks, exerciseConfig)
  ELSE DeadliftCalculateMetrics(landmarks, exerciseConfig)

\* ------------------------------------------------------------------------
\* Metrics extractor
\* ------------------------------------------------------------------------
\* exerciseConfig.visibilityThresholds[name] || VISIBILITY_THRESHOLDS.DEFAULT
EffectiveThreshold(exerciseConfig, name) ==
  IF name \in DOMAIN exerciseConfig.visibilityThresholds
       /\ Truthy(exerciseConfig.visibilityThresholds[name])
  THEN exerciseConfig.visibilityThresholds[name]
  ELSE VISIBILITY_DEFAULT

\* First pass of poseDetection.ts: lm.visibility && lm.visibility < threshold
LowVisibilityTs(visibility, threshold) ==
  Truthy(visibility) /\ JsLt(visibility, threshold)

\* First pass of poseDetection.js: lm.visibility < threshold
LowVisibilityJs(visibility, threshold) == JsLt(visibility, threshold)

\* Second pass of poseDetection.ts: lm.visibility ? lm.visibility >= threshold : false
MeetsMinimumTs(visibility, threshold) ==
  IF Truthy(visibility) THEN JsGe(visibility, threshold) ELSE FALSE

\* Second pass of poseDetection.js: lm.visibility >= threshold
MeetsMinimumJs(visibility, threshold) == JsGe(visibility, threshold)

\* The roles reported in visibilityIssues.
visibilityIssues(landmarks, exerciseConfig, variant) ==
  LET req == exerciseConfig.requiredLandmarks
  IN { k \in 1..Len(req) :
         \/ IsMissing(landmarks, req[k].index)
         \/ LET vis == landmarks.pts[req[k].index].visibility
                threshold == EffectiveThreshold(exerciseConfig, req[k].name)
            IN IF variant = "ts" THEN LowVisibilityTs(vis, threshold)
               ELSE LowVisibilityJs(vis, threshold) }

hasMinimumVisibility(landmarks, exerciseConfig, variant) ==
  LET req == exerciseConfig.requiredLandmarks
  IN \A k \in 1..Len(req) :
       /\ ~IsMissing(landmarks, req[k].index)
       /\ LET vis == landmarks.pts[req[k].index].visibility
              threshold == EffectiveThreshold(exerciseConfig, req[k].name)
          IN IF variant = "ts" THEN MeetsMinimumTs(vis, threshold)
             ELSE MeetsMinimumJs(vis, threshold)

\* calculateExerciseMetrics(landmarks, exerciseConfig): a metrics record,
\* NULL, or THROW (Object.entries of an undefined requiredLandmarks).
calculateExerciseMetrics(landmarks, exerciseConfig, variant) ==
  IF landmarks.length = 0 THEN NULL
  ELSE IF ~HasRequiredLandmarks(exerciseConfig) THEN THROW
  ELSE IF visibilityIssues(landmarks, exerciseConfig, variant) # {}
          /\ ~hasMinimumVisibility(landmarks, exerciseConfig, variant)
       THEN NULL
  ELSE calculateMetrics(landmarks, exerciseConfig)

\* ------------------------------------------------------------------------
\* Key positions (frame indices are 0-based, sequences 1-based)
\* ------------------------------------------------------------------------
\* A key position that carries the metrics of the first frame whatever its
\* index.
KeyPositionOfFirst(allFramesMetrics, idx) == [frame |-> idx] @@ allFramesMetrics[1]

\* { frame: idx, ...allFramesMetrics[idx] }
KeyPosition(allFramesMetrics, idx) == [frame |-> idx] @@ allFramesMetrics[idx + 1]

\* The forEach scan "if (value < min) { min = value; idx = i }" from index 0:
\* the index left in idx after scanning the first n entries.
RECURSIVE ScanMin(_, _, _)
ScanMin(allFramesMetrics, field, n) ==
  IF n = 1 THEN 0
  ELSE LET prev == ScanMin(allFramesMetrics, field, n - 1)
       IN IF JsLt(allFramesMetrics[n][field], allFramesMetrics[prev + 1][field])
          THEN n - 1 ELSE prev

RECURSIVE ScanMax(_, _, _)
ScanMax(allFramesMetrics, field, n) ==
  IF n = 1 THEN 0
  ELSE LET prev == ScanMax(allFramesMetrics, field, n - 1)
       IN IF JsGt(allFramesMetrics[n][field], allFramesMetrics[prev + 1][field])
          THEN n - 1 ELSE prev

\* SQUAT_CONFIG.identifyKeyPositions with the scan keeping the last frame
\* that attains the minimum ("<=" in place of "<").
SquatIdentifyKeyPositionsLastTie(allFramesMetrics) ==
  LET setupIdx == 0
      bottomIdx ==
        CHOOSE k \in 0..(Len(allFramesMetrics) - 1) :
          /\ \A j \in 0..(Len(allFramesMetrics) - 1) :
               allFramesMetrics[k + 1].hipHeight <= allFramesMetrics[j + 1].hipHeight
          /\ \A j \in (k + 1)..(Len(allFramesMetrics) - 1) :
               allFramesMetrics[k + 1].hipHeight < allFramesMetrics[j + 1].hipHeight
      completionIdx == Len(allFramesMetrics) - 1
  IN [ setup |-> KeyPosition(allFramesMetrics, setupIdx),
       bottomPosition |-> KeyPosition(allFramesMetrics, bottomIdx),
       completion |-> KeyPosition(allFramesMetrics, completionIdx) ]

\* SQUAT_CONFIG.identifyKeyPositions
SquatIdentifyKeyPositions(allFramesMetrics) ==
  LET setupIdx == 0
      bottomIdx == ScanMin(allFramesMetrics, "hipHeight", Len(allFramesMetrics))
      completionIdx == Len(allFramesMetrics) - 1
  IN [ setup |-> KeyPosition(allFramesMetrics, setupIdx),
       bottomPosition |-> KeyPosition(allFramesMetrics, bottomIdx),
       completion |-> KeyPosition(allFramesMetrics, completionIdx) ]

\* DEADLIFT_CONFIG.identifyKeyPositions with the lockout at the lowest hip.
DeadliftIdentifyKeyPositionsLowestHip(allFramesMetrics) ==
  LET setupIdx == 0
      bottomIdx == ScanMin(allFramesMetrics, "wristHeight", Len(allFramesMetrics))
      lockoutIdx == ScanMin(allFramesMetrics, "hipHeight", Len(allFramesMetrics))
      completionIdx == Len(allFramesMetrics) - 1
  IN [ setup |-> KeyPosition(allFramesMetrics, setupIdx),
       startOfPull |-> KeyPosition(allFramesMetrics, bottomIdx),
       lockout |-> KeyPosition(allFramesMetrics, lockoutIdx),
       completion |-> KeyPosition(allFramesMetrics, completionIdx) ]

\* DEADLIFT_CONFIG.identifyKeyPositions
DeadliftIdentifyKeyPositions(allFramesMetrics) ==
  LET setupIdx == 0
      bottomIdx == ScanMin(allFramesMetrics, "wristHeight", Len(allFramesMetrics))
      lockoutIdx == ScanMax(allFramesMetrics, "hipHeight", Len(allFramesMetrics))
      completionIdx == Len(allFramesMetrics) - 1
  IN [ setup |-> KeyPosition(allFramesMetrics, setupIdx),
       startOfPull |-> KeyPosition(allFramesMetrics, bottomIdx),
       lockout |-> KeyPosition(allFramesMetrics, lockoutIdx),
       completion |-> KeyPosition(allFramesMetrics, completionIdx) ]

\* exerciseConfig.identifyKeyPositions(allFramesMetrics); reading
\* allFramesMetrics[0].hipHeight of an empty array throws.
identifyKeyPositions(allFramesMetrics, exerciseConfig) ==
  IF Len(allFramesMetrics) = 0 THEN THROW
  ELSE IF exerciseConfig.name = "Squat"
       THEN SquatIdentifyKeyPositions(allFramesMetrics)
       ELSE DeadliftIdentifyKeyPositions(allFramesMetrics)

\* ------------------------------------------------------------------------
\* Temporal patterns
\* ------------------------------------------------------------------------
\* A slice that keeps every frame.
SliceWhole(allFramesMetrics, from, to) == allFramesMetrics

\* allFramesMetrics.slice(from, to) with 0 <= from
Slice(allFramesMetrics, from, to) ==
  SubSeq(allFramesMetrics, from + 1, IF to > Len(allFramesMetrics) THEN Len(allFramesMetrics) ELSE to)

\* allFramesMetrics.map(m => m[field])
Pluck(allFramesMetrics, field) ==
  [k \in 1..Len(allFramesMetrics) |-> allFramesMetrics[k][field]]

RECURSIVE SumSeq(_)
SumSeq(xs) == IF Len(xs) = 0 THEN 0 ELSE xs[1] + SumSeq(Tail(xs))

\* The rise divided by the number of steps between the frames.
RiseRateOverSteps(rise, length) == RoundDiv(rise * 10, length - 1)

\* parseFloat((rise / frames.length).toFixed(4)), rise in thousandths
RiseRate(rise, length) == RoundDiv(rise * 10, length)

\* shoulderRiseRate !== 0 ? parseFloat((hipRiseRate / shoulderRiseRate).toFixed(2)) : 0
RiseRateRatio(hipRiseRate, shoulderRiseRate) ==
  IF shoulderRiseRate # 0 THEN RoundDiv(hipRiseRate * 100, shoulderRiseRate) ELSE 0

\* parseFloat(v.toFixed(1)) of a value already held in tenths
toFixed1OfTenths(v) == IF v = NaN THEN NaN ELSE RoundDiv(v, 1)

\* The guard "if (bottomIdx >= completionIdx) return null"
DegenerateAtOrAfter(startIdx, endIdx) == startIdx > endIdx

DegeneratePhase(startIdx, endIdx) == startIdx >= endIdx

\* SQUAT_CONFIG.calculateTemporalPatterns
SquatCalculateTemporalPatterns(allFramesMetrics, keyPositions) ==
  LET bottomIdx == keyPositions.bottomPosition.frame
      completionIdx == keyPositions.completion.frame
      ascentFrames == Slice(allFramesMetrics, bottomIdx, completionIdx + 1)
      hipRise == ascentFrames[Len(ascentFrames)].hipHeight - ascentFrames[1].hipHeight
      shoulderRise ==
        ascentFrames[Len(ascentFrames)].shoulderHeight - ascentFrames[1].shoulderHeight
      hipRiseRate == RiseRate(hipRise, Len(ascentFrames))
      shoulderRiseRate == RiseRate(shoulderRise, Len(ascentFrames))
      riseRateRatio == RiseRateRatio(hipRiseRate, shoulderRiseRate)
      maxTorsoLean == MathMax(Pluck(allFramesMetrics, "torsoLean"))
      maxKneeForwardTravel == MathMax(Pluck(allFramesMetrics, "kneeForwardTravel"))
      maxNeckAngle == MathMax(Pluck(allFramesMetrics, "neckAngle"))
      minHipAngle == MathMin(Pluck(allFramesMetrics, "hipAngle"))
  IN IF DegeneratePhase(bottomIdx, completionIdx) THEN NULL
     ELSE [ hipRiseRate |-> hipRiseRate,
            shoulderRiseRate |-> shoulderRiseRate,
            riseRateRatio |-> riseRateRatio,
            maxTorsoLean |-> toFixed1OfTenths(maxTorsoLean),
            maxKneeForwardTravel |-> toFixed1OfTenths(maxKneeForwardTravel),
            neckExtensionMax |-> toFixed1OfTenths(maxNeckAngle),
            minHipAngle |-> toFixed1OfTenths(minHipAngle) ]

\* DEADLIFT_CONFIG.calculateTemporalPatterns
DeadliftCalculateTemporalPatterns(allFramesMetrics, keyPositions) ==
  LET startIdx == keyPositions.startOfPull.frame
      lockoutIdx == keyPositions.lockout.frame
      pullFrames == Slice(allFramesMetrics, startIdx, lockoutIdx + 1)
      avgBarPathDeviation ==
        RoundDiv(SumSeq(Pluck(pullFrames, "barPathDeviation")), Len(pullFrames))
      maxBarPathDeviation == MathMax(Pluck(pullFrames, "barPathDeviation"))
      maxBackAngle == MathMax(Pluck(allFramesMetrics, "backAngle"))
      minBackAngle == MathMin(Pluck(allFramesMetrics, "backAngle"))
      backAngleChange ==
        IF maxBackAngle = NaN \/ minBackAngle = NaN THEN NaN
        ELSE toFixed1OfTenths(maxBackAngle - minBackAngle)
      hipRise == pullFrames[Len(pullFrames)].hipHeight - pullFrames[1].hipHeight
      shoulderRise ==
        pullFrames[Len(pullFrames)].shoulderHeight - pullFrames[1].shoulderHeight
      hipRiseRate == RiseRate(hipRise, Len(pullFrames))
      shoulderRiseRate == RiseRate(shoulderRise, Len(pullFrames))
      riseRateRatio == RiseRateRatio(hipRiseRate, shoulderRiseRate)
      maxNeckAngle == MathMax(Pluck(allFramesMetrics, "neckAngle"))
  IN IF DegeneratePhase(startIdx, lockoutIdx) THEN NULL
     ELSE [ avgBarPathDeviation |-> avgBarPathDeviation,
            maxBarPathDeviation |-> toFixed1OfTenths(maxBarPathDeviation),
            maxBackAngle |-> toFixed1OfTenths(maxBackAngle),
            backAngleChange |-> backAngleChange,
            hipRiseRate |-> hipRiseRate,
            shoulderRiseRate |-> shoulderRiseRate,
            riseRateRatio |-> riseRateRatio,
            neckExtensionMax |-> toFixed1OfTenths(maxNeckAngle) ]

\* exerciseConfig.calculateTemporalPatterns(allFramesMetrics, keyPositions)
calculateTemporalPatterns(allFramesMetrics, keyPositions, exerciseConfig) ==
  IF exerciseConfig.name = "Squat"
  THEN SquatCalculateTemporalPatterns(allFramesMetrics, keyPositions)
  ELSE DeadliftCalculateTemporalPatterns(allFramesMetrics, keyPositions)

analyzeTemporalPatterns(allFramesMetrics, keyPositions, exerciseConfig) ==
  IF Len(allFramesMetrics) < 2 THEN NULL
  ELSE calculateTemporalPatterns(allFramesMetrics, keyPositions, exerciseConfig)

\* ------------------------------------------------------------------------
\* Risk flags.  A flag string is held by its parts:
\*   `${text} (${label}${value}${unit} - ${marker}${threshold}${unit})`
\* ------------------------------------------------------------------------
FlagOfThresholdOnly(text, label, value, unit, marker, threshold) ==
  [ text |-> text, label |-> label, value |-> threshold, unit |-> unit,
    marker |-> marker, threshold |-> threshold ]

Flag(text, label, value, unit, marker, threshold) ==
  [ text |-> text, label |-> label, value |-> value, unit |-> unit,
    marker |-> marker, threshold |-> threshold ]

\* The check with ">=" in place of ">".
PushIfAtLeast(value, threshold, flag) == IF JsGe(value, threshold) THEN <<flag>> ELSE <<>>

\* if (value > threshold) flags.push(flag)
PushIf(value, threshold, flag) == IF JsGt(value, threshold) THEN <<flag>> ELSE <<>>

\* SQUAT_CONFIG.detectRiskFlags
SquatDetectRiskFlags(temporalAnalysis, thresholds) ==
  PushIf(temporalAnalysis.maxTorsoLean, thresholds.maxTorsoLean,
         Flag("Excessive torso lean detected", "", temporalAnalysis.maxTorsoLean,
              "deg", "threshold: ", thresholds.maxTorsoLean))
  \o PushIf(temporalAnalysis.riseRateRatio, thresholds.riseRateRatio,
         Flag("Hip rising faster than shoulders", "ratio: ", temporalAnalysis.riseRateRatio,
              "", "threshold: ", thresholds.riseRateRatio))
  \o PushIf(temporalAnalysis.neckExtensionMax, thresholds.neckExtensionMax,
         Flag("Neck hyperextension detected", "", temporalAnalysis.neckExtensionMax,
              "deg", "threshold: ", thresholds.neckExtensionMax))
  \o PushIf(temporalAnalysis.minHipAngle, thresholds.minHipAngle,
         Flag("Insufficient depth", "hip angle: ", temporalAnalysis.minHipAngle,
              "deg", "target: <", thresholds.minHipAngle))
  \o PushIf(temporalAnalysis.maxKneeForwardTravel, thresholds.maxKneeForwardTravel,
         Flag("Excessive knee forward travel", "", temporalAnalysis.maxKneeForwardTravel,
              "%", "threshold: ", thresholds.maxKneeForwardTravel))

\* DEADLIFT_CONFIG.detectRiskFlags with the neck check moved to the front.
DeadliftDetectRiskFlagsNeckFirst(temporalAnalysis, thresholds) ==
  PushIf(temporalAnalysis.neckExtensionMax, thresholds.neckExtensionMax,
         Flag("Neck hyperextension detected", "", temporalAnalysis.neckExtensionMax,
              "deg", "threshold: ", thresholds.neckExtensionMax))
  \o PushIf(temporalAnalysis.maxBackAngle, thresholds.maxBackAngle,
         Flag("Excessive back angle detected", "", temporalAnalysis.maxBackAngle,
              "deg", "threshold: ", thresholds.maxBackAngle))
  \o PushIf(temporalAnalysis.backAngleChange, thresholds.backAngleChange,
         Flag("Back rounding detected during lift", "change: ", temporalAnalysis.backAngleChange,
              "deg", "threshold: ", thresholds.backAngleChange))
  \o PushIf(temporalAnalysis.riseRateRatio, thresholds.riseRateRatio,
         Flag("Hips rising faster than shoulders", "ratio: ", temporalAnalysis.riseRateRatio,
              "", "threshold: ", thresholds.riseRateRatio))
  \o PushIf(temporalAnalysis.maxBarPathDeviation, thresholds.maxBarPathDeviation,
         Flag("Bar path deviating from vertical", "", temporalAnalysis.maxBarPathDeviation,
              "%", "threshold: ", thresholds.maxBarPathDeviation))

\* DEADLIFT_CONFIG.detectRiskFlags
DeadliftDetectRiskFlags(temporalAnalysis, thresholds) ==
  PushIf(temporalAnalysis.maxBackAngle, thresholds.maxBackAngle,
         Flag("Excessive back angle detected", "", temporalAnalysis.maxBackAngle,
              "deg", "threshold: ", thresholds.maxBackAngle))
  \o PushIf(temporalAnalysis.backAngleChange, thresholds.backAngleChange,
         Flag("Back rounding detected during lift", "change: ", temporalAnalysis.backAngleChange,
              "deg", "threshold: ", thresholds.backAngleChange))
  \o PushIf(temporalAnalysis.riseRateRatio, thresholds.riseRateRatio,
         Flag("Hips rising faster than shoulders", "ratio: ", temporalAnalysis.riseRateRatio,
              "", "threshold: ", thresholds.riseRateRatio))
  \o PushIf(temporalAnalysis.maxBarPathDeviation, thresholds.maxBarPathDeviation,
         Flag("Bar path deviating from vertical", "", temporalAnalysis.maxBarPathDeviation,
              "%", "threshold: ", thresholds.maxBarPathDeviation))
  \o PushIf(temporalAnalysis.neckExtensionMax, thresholds.neckExtensionMax,
         Flag("Neck hyperextension detected", "", temporalAnalysis.neckExtensionMax,
              "deg", "threshold: ", thresholds.neckExtensionMax))

\* exerciseConfig.detectRiskFlags(temporalAnalysis, keyPositions, thresholds)
detectRiskFlags(temporalAnalysis, exerciseConfig) ==
  IF exerciseConfig.name = "Squat"
  THEN SquatDetectRiskFlags(temporalAnalysis, exerciseConfig.riskThresholds)
  ELSE DeadliftDetectRiskFlags(temporalAnalysis, exerciseConfig.riskThresholds)

\* detectExerciseRiskFlags reaches exerciseConfig.detectRiskFlags
\* (keyPositions is always an object here).
DetectorInvoked(temporalAnalysis) == temporalAnalysis # NULL

detectExerciseRiskFlags(temporalAnalysis, exerciseConfig) ==
  IF ~DetectorInvoked(temporalAnalysis) THEN <<>>
  ELSE detectRiskFlags(temporalAnalysis, exerciseConfig)

\* ------------------------------------------------------------------------
\* Inputs of the model
\* ------------------------------------------------------------------------
\* A landmark { x, y, z, visibility }
Landmark(x, y, visibility) == [x |-> x, y |-> y, z |-> 0, visibility |-> visibility]

\* The 33-landmark arrays of the unit tests (createStandingSquatLandmarks with
\* the wrist of createDeadliftLockoutLandmarks, createBottomSquatLandmarks, and
\* a setup with the shoulders ahead of the hips).
StandingLandmarks ==
  [ length |-> 33,
    pts |-> ( NOSE :> Landmark(50, 10, 100) @@ RIGHT_EAR :> Landmark(52, 12, 100) @@
              RIGHT_SHOULDER :> Landmark(55, 30, 100) @@ RIGHT_HIP :> Landmark(55, 55, 100) @@
              RIGHT_KNEE :> Landmark(55, 75, 80) @@ RIGHT_ANKLE :> Landmark(55, 95, 50) @@
              RIGHT_WRIST :> Landmark(55, 65, 80) ) ]

BottomLandmarks ==
  [ length |-> 33,
    pts |-> ( NOSE :> Landmark(50, 35, 100) @@ RIGHT_EAR :> Landmark(52, 37, 100) @@
              RIGHT_SHOULDER :> Landmark(55, 50, 100) @@ RIGHT_HIP :> Landmark(55, 75, 100) @@
              RIGHT_KNEE :> Landmark(60, 85, 80) @@ RIGHT_ANKLE :> Landmark(55, 95, 50) @@
              RIGHT_WRIST :> Landmark(55, 85, 50) ) ]

SetupLandmarks ==
  [ length |-> 33,
    pts |-> ( NOSE :> Landmark(55, 40, 100) @@ RIGHT_EAR :> Landmark(57, 42, 100) @@
              RIGHT_SHOULDER :> Landmark(60, 50, 100) @@ RIGHT_HIP :> Landmark(55, 65, 100) @@
              RIGHT_KNEE :> Landmark(56, 80, 80) @@ RIGHT_ANKLE :> Landmark(55, 95, 50) @@
              RIGHT_WRIST :> Landmark(55, 85, 50) ) ]

\* landmarks with the visibility of one entry replaced
WithVisibility(landmarks, index, visibility) ==
  [landmarks EXCEPT !.pts[index].visibility = visibility]

\* landmarks cut to a shorter array
WithLength(landmarks, length) == [landmarks EXCEPT !.length = length]

\* What the pose estimator hands to the onResults listener during one run:
\* no poseLandmarks, or one of these arrays.
NoLandmarks == [length |-> -1]

RunLandmarks ==
  { StandingLandmarks, BottomLandmarks, SetupLandmarks,
    WithVisibility(BottomLandmarks, RIGHT_ANKLE, 0),
    WithVisibility(StandingLandmarks, RIGHT_HIP, 30),
    WithLength(StandingLandmarks, 0) }

\* Exercise names passed by callers.
ExerciseNames ==
  { <<"s","q","u","a","t">>, <<"S","Q","U","A","T">>,
    <<"D","e","a","d","l","i","f","t">>,
    <<"b","e","n","c","h","p","r","e","s","s">>,
    <<"t","o","S","t","r","i","n","g">>,
    <<"c","o","n","s","t","r","u","c","t","o","r">> }

\* video.duration values, in seconds
Durations == {0, 4}

\* ------------------------------------------------------------------------
\* State of one analyzeExerciseVideo run
\* ------------------------------------------------------------------------
VARIABLES
  variant,          \* "ts" (poseDetection.ts) or "js" (poseDetection.js)
  exerciseType,     \* argument: the exercise name
  frameCount,       \* argument: the number of frames to sample
  onProgress,       \* argument: TRUE iff a progress callback was passed
  contextOk,        \* canvas.getContext('2d') returns a context
  exerciseConfig,   \* the looked-up config
  pc,               \* where the run is
  promise,          \* state of the promise handed to the caller
  error,            \* the rejection value
  report,           \* the resolution value
  urlState,         \* the object URL of the video: none, live, revoked
  videoCreated,     \* a video element was created
  poseState,        \* the Pose instance: none, created, initialized, closed
  duration,         \* video.duration
  i,                \* loop index
  allFramesMetrics, \* accepted metrics
  seekLog,          \* history: seeks started (index and time point)
  sentLog,          \* history: indices handed to pose.send
  resultsLog,       \* history: indices whose onResults listener has run
  acceptedLog,      \* history: indices whose metrics were pushed
  progressLog,      \* history: onProgress arguments, <<numerator, denominator>>
  kpCalls,          \* history: lengths passed to identifyKeyPositions
  detectorCalls,    \* history: number of exerciseConfig.detectRiskFlags calls
  failure,          \* history: the upstream failure that occurred
  landmarksLog,     \* history: what each run of the onResults listener received
  registry,         \* the own properties of EXERCISE_CONFIGS (shared by all runs)
  parked,           \* the state of a second run in flight while this one steps
  fnArgs,           \* arguments of a function applied on its own
  fnResult,         \* its result
  appVariant,       \* the view: "tsx" (FormCheckView) or "jsx" (App.jsx)
  view,             \* the view's state: stage, videoFile, videoUrl, exerciseType,
                    \* results, error
  uploader,         \* the mounted VideoUploader's state: exerciseType, error
  handleFileCalls,  \* handleFile calls awaiting checkVideoDuration
  handleAnalyzeCalls, \* handleAnalyze calls awaiting the analysis or the backend
  objectUrls,       \* URL.createObjectURL / revokeObjectURL: created, revoked
  onVideoSelectedCall, \* history: the latest onVideoSelected call of VideoUploader:
                    \* its arguments, the exercise type selected in the
                    \* uploader at that moment, the URL created for the view
  handleFileEvent   \* history: the file of the latest step of a handleFile call
                    \* of the mounted uploader (awaiting, returned, rejected)

inputVars == <<variant, exerciseType, frameCount, onProgress, contextOk, exerciseConfig>>

fnVars == <<fnArgs, fnResult>>

logVars ==
  <<seekLog, sentLog, resultsLog, acceptedLog, progressLog, kpCalls, detectorCalls,
    landmarksLog>>

sharedVars == <<registry, parked>>

viewVars ==
  <<appVariant, view, uploader, handleFileCalls, handleAnalyzeCalls, objectUrls,
    onVideoSelectedCall, handleFileEvent>>

vars ==
  <<variant, exerciseType, frameCount, onProgress, contextOk, exerciseConfig, pc,
    promise, error, report, urlState, videoCreated, poseState, duration, i,
    allFramesMetrics, seekLog, sentLog, resultsLog, acceptedLog, progressLog,
    kpCalls, detectorCalls, failure, landmarksLog, registry, parked, fnArgs, fnResult,
    appVariant, view, uploader, handleFileCalls, handleAnalyzeCalls, objectUrls,
    onVideoSelectedCall, handleFileEvent>>

NoError == [kind |-> "none", stage |-> "", wrapped |-> FALSE, detail |-> <<>>]

\* new Error(`Unsupported exercise type: ${exerciseType}. Supported types: ${keys.join(', ')}`)
UnsupportedError(name, keys) ==
  [kind |-> "UnsupportedExercise", stage |-> "config", wrapped |-> FALSE,
   detail |-> <<name, keys>>]

CanvasError == [kind |-> "NoCanvasContext", stage |-> "", wrapped |-> FALSE, detail |-> <<>>]

\* new Error(`Failed to load video: ${e.message}`)
LoadError == [kind |-> "VideoError", stage |-> "load", wrapped |-> TRUE, detail |-> <<>>]

\* poseDetection.js: new Error(`Failed to initialize pose detection: ${initError.message}`)
\* poseDetection.ts: the error thrown by pose.initialize(), as it is
InitError(v) ==
  IF v = "js"
  THEN [kind |-> "PoseInitError", stage |-> "init", wrapped |-> TRUE, detail |-> <<>>]
  ELSE [kind |-> "PoseInitError", stage |-> "", wrapped |-> FALSE, detail |-> <<>>]

PoseNotDetectedError ==
  [kind |-> "PoseNotDetected", stage |-> "", wrapped |-> FALSE, detail |-> <<>>]

TypeError == [kind |-> "TypeError", stage |-> "", wrapped |-> FALSE, detail |-> <<>>]

InitRun ==
  /\ variant = "ts"
  /\ exerciseType = <<>>
  /\ frameCount = 0
  /\ onProgress = FALSE
  /\ contextOk = TRUE
  /\ exerciseConfig = UNDEFINED
  /\ pc = "idle"
  /\ promise = "none"
  /\ error = NoError
  /\ report = NULL
  /\ urlState = "none"
  /\ videoCreated = FALSE
  /\ poseState = "none"
  /\ duration = 0
  /\ i = 0
  /\ allFramesMetrics = <<>>
  /\ seekLog = <<>>
  /\ sentLog = <<>>
  /\ resultsLog = <<>>
  /\ acceptedLog = <<>>
  /\ progressLog = <<>>
  /\ kpCalls = <<>>
  /\ detectorCalls = 0
  /\ failure = "none"
  /\ landmarksLog = <<>>
  /\ registry = EXERCISE_CONFIGS_OWN

NoCall == [fn |-> "none"]

\* No second run.
NoRun == [run |-> "none"]

\* The useState initial values of the view.
InitialView ==
  [stage |-> "upload", videoFile |-> NULL, videoUrl |-> NULL, exerciseType |-> NULL,
   results |-> NULL, error |-> NULL]

\* The useState initial values of a freshly mounted VideoUploader.
InitialUploader == [exerciseType |-> SquatKey, error |-> NULL]

\* The page after its first render: nothing selected, no handler in flight,
\* no object URL created.
InitView ==
  /\ view = InitialView
  /\ uploader = InitialUploader
  /\ handleFileCalls = {}
  /\ handleAnalyzeCalls = <<>>
  /\ objectUrls = [created |-> 0, revoked |-> {}]
  /\ onVideoSelectedCall = NoCall
  /\ handleFileEvent = NoCall

\* The page left alone while the pipeline is exercised on its own.
NoView == appVariant = "tsx" /\ InitView

Init == InitRun /\ parked = NoRun /\ NoView /\ fnArgs = NoCall /\ fnResult = NoCall

\* reject(err) and resolve(rep): only the first settles the promise.
Reject(err) ==
  /\ promise' = IF promise = "pending" THEN "rejected" ELSE promise
  /\ error' = IF promise = "pending" THEN err ELSE error
  /\ report' = report

Resolve(rep) ==
  /\ promise' = IF promise = "pending" THEN "resolved" ELSE promise
  /\ report' = IF promise = "pending" THEN rep ELSE report
  /\ error' = error

\* An exception reaches the top of the loadedmetadata handler: the try/catch
\* of poseDetection.ts revokes and rejects; poseDetection.js has none, and the
\* handler's own promise rejects unobserved.
HandlerThrows(err) ==
  IF variant = "ts"
  THEN /\ urlState' = "revoked"
       /\ Reject(err)
       /\ pc' = "returned"
  ELSE /\ pc' = "crashed"
       /\ UNCHANGED <<urlState, promise, error, report>>

\* The guard "if (allFramesMetrics.length === 0)" of step 4
NeverDetected(metrics) == FALSE

NoPoseDetected(metrics) == Len(metrics) = 0

\* Steps 4 and 5, after pose.close()
Finish(idx, metrics) ==
  /\ i' = idx
  /\ allFramesMetrics' = metrics
  /\ poseState' = "closed"
  /\ seekLog' = seekLog
  /\ IF NoPoseDetected(metrics)
     THEN /\ urlState' = "revoked"
          /\ Reject(PoseNotDetectedError)
          /\ pc' = "returned"
          /\ UNCHANGED <<kpCalls, detectorCalls>>
     ELSE LET keyPositions == identifyKeyPositions(metrics, exerciseConfig)
              temporalAnalysis == analyzeTemporalPatterns(metrics, keyPositions, exerciseConfig)
              riskFlags == detectExerciseRiskFlags(temporalAnalysis, exerciseConfig)
              analysisData ==
                [ exerciseType |-> exerciseConfig.name,
                  frameCount |-> Len(metrics),
                  duration |-> duration,
                  keyPositions |-> keyPositions,
                  temporalAnalysis |-> temporalAnalysis,
                  riskFlags |-> riskFlags ]
          IN /\ kpCalls' = Append(kpCalls, Len(metrics))
             /\ IF keyPositions = THROW
                THEN /\ HandlerThrows(TypeError)
                     /\ detectorCalls' = detectorCalls
                ELSE /\ detectorCalls' =
                          IF DetectorInvoked(temporalAnalysis)
                          THEN detectorCalls + 1 ELSE detectorCalls
                     /\ urlState' = "revoked"
                     /\ Resolve(analysisData)
                     /\ pc' = "returned"

\* (duration * i) / (frameCount - 1) is NaN exactly for 0 / 0
TimePointIsNaN(idx) == frameCount - 1 = 0 /\ duration * idx = 0

\* The head of "for (let i = 0; i < frameCount; i++)" with i = idx: start the
\* seek of frame idx, or leave the loop.  video.currentTime = NaN throws.
LoopHead(idx, metrics) ==
  IF idx < frameCount
  THEN IF TimePointIsNaN(idx)
       THEN /\ HandlerThrows(TypeError)
            /\ i' = idx
            /\ allFramesMetrics' = metrics
            /\ poseState' = "initialized"
            /\ UNCHANGED <<seekLog, kpCalls, detectorCalls>>
       ELSE /\ pc' = "seeking"
            /\ i' = idx
            /\ allFramesMetrics' = metrics
            /\ poseState' = "initialized"
            /\ seekLog' = Append(seekLog, [index |-> idx, num |-> duration * idx,
                                           den |-> frameCount - 1])
            /\ UNCHANGED <<promise, error, report, urlState, kpCalls, detectorCalls>>
  ELSE Finish(idx, metrics)

\* ------------------------------------------------------------------------
\* The onResults listener
\* ------------------------------------------------------------------------
HasPoseLandmarks(poseLandmarks) == poseLandmarks # NoLandmarks

\* The listener's effect: whether it threw (calculateExerciseMetrics did), and
\* allFramesMetrics after it.
PushTwice(poseLandmarks, metricsSoFar, config, v) ==
  IF ~HasPoseLandmarks(poseLandmarks) THEN [threw |-> FALSE, metrics |-> metricsSoFar]
  ELSE LET metrics == calculateExerciseMetrics(poseLandmarks, config, v)
       IN IF metrics = THROW THEN [threw |-> TRUE, metrics |-> metricsSoFar]
          ELSE IF metrics # NULL
               THEN [threw |-> FALSE, metrics |-> metricsSoFar \o <<metrics, metrics>>]
          ELSE [threw |-> FALSE, metrics |-> metricsSoFar]

onResults(poseLandmarks, metricsSoFar, config, v) ==
  IF ~HasPoseLandmarks(poseLandmarks) THEN [threw |-> FALSE, metrics |-> metricsSoFar]
  ELSE LET metrics == calculateExerciseMetrics(poseLandmarks, config, v)
       IN IF metrics = THROW THEN [threw |-> TRUE, metrics |-> metricsSoFar]
          ELSE IF metrics # NULL
               THEN [threw |-> FALSE, metrics |-> Append(metricsSoFar, metrics)]
          ELSE [threw |-> FALSE, metrics |-> metricsSoFar]

\* The listener pushed the metrics of these landmarks.
Accepts(poseLandmarks, config, v) ==
  /\ HasPoseLandmarks(poseLandmarks)
  /\ calculateExerciseMetrics(poseLandmarks, config, v) \notin {NULL, THROW}

\* The progress value with i in place of i + 1.
ProgressValueOfIndex(idx, count) == <<idx, count>>

\* The argument of onProgress, (i + 1) / frameCount, as <<numerator, denominator>>
ProgressValue(idx, count) == <<idx + 1, count>>

\* i++ of the frame loop
SameIndex(idx) == idx

NextIndex(idx) == idx + 1

\* ------------------------------------------------------------------------
\* Actions of the run
\* ------------------------------------------------------------------------
\* What a run is called with and what its collaborators hand to it.  With a
\* second run in flight the values are drawn from smaller sets, to keep the
\* product of the two runs' states small.
RunInputs ==
  IF parked = NoRun
  THEN [ names |-> ExerciseNames, frameCounts |-> 0..MaxFrames, callbacks |-> BOOLEAN,
         durations |-> Durations, landmarks |-> RunLandmarks \cup {NoLandmarks} ]
  ELSE [ names |-> {SquatKey, <<"D","e","a","d","l","i","f","t">>},
         frameCounts |-> {TwoRunFrames}, callbacks |-> {TRUE}, durations |-> {4},
         landmarks |-> { StandingLandmarks, BottomLandmarks,
                         WithVisibility(StandingLandmarks, RIGHT_HIP, 30), NoLandmarks } ]

\* analyzeExerciseVideo(videoFile, exerciseType, frameCount, onProgress) up to
\* the registration of the two video listeners.
Call ==
  /\ pc = "idle"
  /\ \E v \in {"ts", "js"}, name \in RunInputs.names, n \in RunInputs.frameCounts,
        cb \in RunInputs.callbacks, ctx \in BOOLEAN :
       LET config == GetProperty(registry, toLowerCase(name))
       IN /\ variant' = v
          /\ exerciseType' = name
          /\ frameCount' = n
          /\ onProgress' = cb
          /\ contextOk' = ctx
          /\ exerciseConfig' = config
          /\ IF config = UNDEFINED
             THEN /\ promise' = "rejected"
                  /\ error' = UnsupportedError(name, EXERCISE_CONFIGS_KEYS)
                  /\ pc' = "returned"
                  /\ UNCHANGED <<urlState, videoCreated>>
             ELSE IF v = "ts" /\ ~ctx
             THEN /\ promise' = "rejected"
                  /\ error' = CanvasError
                  /\ pc' = "returned"
                  /\ videoCreated' = TRUE
                  /\ urlState' = urlState
             ELSE /\ promise' = "pending"
                  /\ error' = error
                  /\ pc' = "loading"
                  /\ videoCreated' = TRUE
                  /\ urlState' = "live"
  /\ UNCHANGED <<report, poseState, duration, i, allFramesMetrics, failure>>
  /\ UNCHANGED logVars
  /\ UNCHANGED fnVars
  /\ UNCHANGED <<sharedVars, viewVars>>

\* 'loadedmetadata' listener up to "await pose.initialize()"
LoadedMetadata ==
  /\ pc = "loading"
  /\ \E d \in RunInputs.durations : duration' = d
  /\ poseState' = "created"
  /\ pc' = "initializing"
  /\ UNCHANGED <<promise, error, report, urlState, videoCreated, i, allFramesMetrics, failure>>
  /\ UNCHANGED inputVars
  /\ UNCHANGED logVars
  /\ UNCHANGED fnVars
  /\ UNCHANGED <<sharedVars, viewVars>>

\* 'error' listener of the video element: while loading, or while a seek is
\* decoding (the seek then never completes).
VideoError ==
  /\ pc \in {"loading", "seeking"}
  /\ urlState' = "revoked"
  /\ Reject(LoadError)
  /\ failure' = "load"
  /\ pc' = IF pc = "loading" THEN "returned" ELSE "stuck"
  /\ UNCHANGED <<videoCreated, poseState, duration, i, allFramesMetrics>>
  /\ UNCHANGED inputVars
  /\ UNCHANGED logVars
  /\ UNCHANGED fnVars
  /\ UNCHANGED <<sharedVars, viewVars>>

\* pose.initialize() resolves: the handler runs on to the first seek (or past
\* an empty loop to the end).
InitializeOk ==
  /\ pc = "initializing"
  /\ LoopHead(0, allFramesMetrics)
  /\ UNCHANGED <<videoCreated, duration, failure>>
  /\ UNCHANGED <<sentLog, resultsLog, acceptedLog, progressLog, landmarksLog>>
  /\ UNCHANGED inputVars
  /\ UNCHANGED fnVars
  /\ UNCHANGED <<sharedVars, viewVars>>

\* pose.initialize() rejects
InitializeFails ==
  /\ pc = "initializing"
  /\ urlState' = "revoked"
  /\ Reject(InitError(variant))
  /\ failure' = "init"
  /\ pc' = "returned"
  /\ UNCHANGED <<videoCreated, poseState, duration, i, allFramesMetrics>>
  /\ UNCHANGED inputVars
  /\ UNCHANGED logVars
  /\ UNCHANGED fnVars
  /\ UNCHANGED <<sharedVars, viewVars>>

\* 'seeked' listener onSeeked up to "await pose.send(...)": drawImage throws
\* (always on a null context), or the frame is sent.
Seeked ==
  /\ pc = "seeking"
  /\ \E drawOk \in BOOLEAN :
       IF ~contextOk \/ ~drawOk
       THEN /\ pc' = "stuck"
            /\ failure' = "draw"
            /\ sentLog' = sentLog
       ELSE /\ pc' = "sending"
            /\ failure' = failure
            /\ sentLog' = Append(sentLog, i)
  /\ UNCHANGED <<promise, error, report, urlState, videoCreated, poseState, duration, i,
                 allFramesMetrics>>
  /\ UNCHANGED <<seekLog, resultsLog, acceptedLog, progressLog, kpCalls, detectorCalls,
                 landmarksLog>>
  /\ UNCHANGED inputVars
  /\ UNCHANGED fnVars
  /\ UNCHANGED <<sharedVars, viewVars>>

\* pose.send() rejects: onSeeked rejects with it and resolveFrame is never
\* called.
SendFails ==
  /\ pc = "sending"
  /\ pc' = "stuck"
  /\ failure' = "send"
  /\ UNCHANGED <<promise, error, report, urlState, videoCreated, poseState, duration, i,
                 allFramesMetrics>>
  /\ UNCHANGED inputVars
  /\ UNCHANGED logVars
  /\ UNCHANGED fnVars
  /\ UNCHANGED <<sharedVars, viewVars>>

\* pose.send() runs the onResults listener and resolves; onSeeked goes on to
\* onProgress and resolveFrame, and the loop to its next head.  A listener
\* that throws either fails the send or is swallowed by the estimator.
SendReturns ==
  /\ pc = "sending"
  /\ \E poseLandmarks \in RunInputs.landmarks, swallowed \in BOOLEAN :
       LET pushed == onResults(poseLandmarks, allFramesMetrics, exerciseConfig, variant)
       IN /\ resultsLog' = Append(resultsLog, i)
          /\ landmarksLog' = Append(landmarksLog, poseLandmarks)
          /\ IF pushed.threw /\ ~swallowed
             THEN /\ pc' = "stuck"
                  /\ UNCHANGED <<promise, error, report, urlState, poseState, i,
                                 allFramesMetrics, seekLog, acceptedLog, progressLog,
                                 kpCalls, detectorCalls>>
             ELSE /\ acceptedLog' =
                       IF Accepts(poseLandmarks, exerciseConfig, variant)
                       THEN Append(acceptedLog, i) ELSE acceptedLog
                  /\ progressLog' =
                       IF onProgress
                       THEN Append(progressLog, ProgressValue(i, frameCount))
                       ELSE progressLog
                  /\ LoopHead(NextIndex(i), pushed.metrics)
  /\ UNCHANGED <<videoCreated, duration, failure, sentLog>>
  /\ UNCHANGED inputVars
  /\ UNCHANGED fnVars
  /\ UNCHANGED <<sharedVars, viewVars>>

NextRun ==
  \/ Call
  \/ LoadedMetadata
  \/ VideoError
  \/ InitializeOk
  \/ InitializeFails
  \/ Seeked
  \/ SendFails
  \/ SendReturns

Next == NextRun

Spec == Init /\ [][Next]_vars

\* Every event the run waits for eventually occurs.
FairSpec == Spec /\ WF_vars(Next)

\* ------------------------------------------------------------------------
\* Two runs in flight
\* ------------------------------------------------------------------------
\* Everything a run holds in the locals of its call and of its handlers.
RunState ==
  [ variant |-> variant, exerciseType |-> exerciseType, frameCount |-> frameCount,
    onProgress |-> onProgress, contextOk |-> contextOk, exerciseConfig |-> exerciseConfig,
    pc |-> pc, promise |-> promise, error |-> error, report |-> report,
    urlState |-> urlState, videoCreated |-> videoCreated, poseState |-> poseState,
    duration |-> duration, i |-> i, allFramesMetrics |-> allFramesMetrics,
    seekLog |-> seekLog, sentLog |-> sentLog, resultsLog |-> resultsLog,
    acceptedLog |-> acceptedLog, progressLog |-> progressLog, kpCalls |-> kpCalls,
    detectorCalls |-> detectorCalls, failure |-> failure, landmarksLog |-> landmarksLog ]

\* A run that has not been called yet.
IdleRun ==
  [ variant |-> "ts", exerciseType |-> <<>>, frameCount |-> 0, onProgress |-> FALSE,
    contextOk |-> TRUE, exerciseConfig |-> UNDEFINED, pc |-> "idle", promise |-> "none",
    error |-> NoError, report |-> NULL, urlState |-> "none", videoCreated |-> FALSE,
    poseState |-> "none", duration |-> 0, i |-> 0, allFramesMetrics |-> <<>>,
    seekLog |-> <<>>, sentLog |-> <<>>, resultsLog |-> <<>>, acceptedLog |-> <<>>,
    progressLog |-> <<>>, kpCalls |-> <<>>, detectorCalls |-> 0, failure |-> "none",
    landmarksLog |-> <<>> ]

\* One array for all runs: the array in use stays in use.
SharedMetrics(run) == allFramesMetrics

\* "const allFramesMetrics = []" is a local of the loadedmetadata handler:
\* the run that steps next uses its own array.
ResumedMetrics(run) == run.allFramesMetrics

\* The event loop turns from this run, waiting for its next event, to the
\* other one.
Switch ==
  /\ parked # NoRun
  /\ parked' = RunState
  /\ variant' = parked.variant
  /\ exerciseType' = parked.exerciseType
  /\ frameCount' = parked.frameCount
  /\ onProgress' = parked.onProgress
  /\ contextOk' = parked.contextOk
  /\ exerciseConfig' = parked.exerciseConfig
  /\ pc' = parked.pc
  /\ promise' = parked.promise
  /\ error' = parked.error
  /\ report' = parked.report
  /\ urlState' = parked.urlState
  /\ videoCreated' = parked.videoCreated
  /\ poseState' = parked.poseState
  /\ duration' = parked.duration
  /\ i' = parked.i
  /\ allFramesMetrics' = ResumedMetrics(parked)
  /\ seekLog' = parked.seekLog
  /\ sentLog' = parked.sentLog
  /\ resultsLog' = parked.resultsLog
  /\ acceptedLog' = parked.acceptedLog
  /\ progressLog' = parked.progressLog
  /\ kpCalls' = parked.kpCalls
  /\ detectorCalls' = parked.detectorCalls
  /\ failure' = parked.failure
  /\ landmarksLog' = parked.landmarksLog
  /\ UNCHANGED <<registry, viewVars>>
  /\ UNCHANGED fnVars

InitTwoRuns ==
  InitRun /\ parked = IdleRun /\ NoView /\ fnArgs = NoCall /\ fnResult = NoCall

NextTwoRuns ==
  \/ NextRun
  \/ Switch

SpecTwoRuns == InitTwoRuns /\ [][NextTwoRuns]_vars

\* ------------------------------------------------------------------------
\* calculateExerciseMetrics applied on its own
\* ------------------------------------------------------------------------
\* Visibilities around the three thresholds, and a landmark without one.
VisibilityValues == {UndefinedVis, 0, 9, 10, 24, 25, 49, 50}

\* Array lengths: empty, cut before RIGHT_ANKLE, full.
LandmarkLengths == {0, 27, 33}

\* The standing pose with the visibilities of at most MaxAltered landmarks
\* replaced, at each length.
MetricsLandmarks ==
  { [ length |-> n,
      pts |-> [idx \in UsedIdx |->
                 IF idx \in DOMAIN alt
                 THEN [StandingLandmarks.pts[idx] EXCEPT !.visibility = alt[idx]]
                 ELSE StandingLandmarks.pts[idx]] ] :
      n \in LandmarkLengths,
      alt \in UNION { [S -> VisibilityValues] :
                      S \in {T \in SUBSET UsedIdx : Cardinality(T) <= MaxAltered} } }

InitMetrics ==
  /\ InitRun
  /\ parked = NoRun
  /\ NoView
  /\ fnArgs \in { [fn |-> "calculateExerciseMetrics", landmarks |-> lm,
                   exerciseConfig |-> config, variant |-> v] :
                  lm \in MetricsLandmarks, config \in {SQUAT_CONFIG, DEADLIFT_CONFIG},
                  v \in {"ts", "js"} }
  /\ fnResult = NoCall

ApplyMetrics ==
  /\ fnArgs.fn = "calculateExerciseMetrics"
  /\ fnResult = NoCall
  /\ fnResult' = [fn |-> fnArgs.fn,
                  value |-> calculateExerciseMetrics(fnArgs.landmarks, fnArgs.exerciseConfig,
                                                     fnArgs.variant)]
  /\ UNCHANGED <<fnArgs, pc, promise, error, report, urlState, videoCreated, poseState,
                 duration, i, allFramesMetrics, failure>>
  /\ UNCHANGED inputVars
  /\ UNCHANGED logVars
  /\ UNCHANGED <<sharedVars, viewVars>>

NextMetrics == ApplyMetrics

SpecMetrics == InitMetrics /\ [][NextMetrics]_vars

\* ------------------------------------------------------------------------
\* calculateTemporalPatterns applied on its own
\* ------------------------------------------------------------------------
\* Metrics records of the three poses for a config.
PoseMetrics(config) ==
  { calculateMetrics(lm, config) : lm \in {StandingLandmarks, BottomLandmarks, SetupLandmarks} }

\* Sequences of 1..MaxSeq of them.
MetricsSequences(config) ==
  UNION { [1..n -> PoseMetrics(config)] : n \in 1..MaxSeq }

\* Key positions whose active phase runs from frame a to frame b.
KeyPositionsAt(metrics, config, a, b) ==
  IF config.name = "Squat"
  THEN [ setup |-> KeyPosition(metrics, 0),
         bottomPosition |-> KeyPosition(metrics, a),
         completion |-> KeyPosition(metrics, b) ]
  ELSE [ setup |-> KeyPosition(metrics, 0),
         startOfPull |-> KeyPosition(metrics, a),
         lockout |-> KeyPosition(metrics, b),
         completion |-> KeyPosition(metrics, Len(metrics) - 1) ]

InitTemporal ==
  /\ InitRun
  /\ parked = NoRun
  /\ NoView
  /\ \E config \in {SQUAT_CONFIG, DEADLIFT_CONFIG} :
       \E ms \in MetricsSequences(config) :
         \E a \in 0..(Len(ms) - 1), b \in 0..(Len(ms) - 1) :
           fnArgs = [fn |-> "calculateTemporalPatterns", allFramesMetrics |-> ms,
                     keyPositions |-> KeyPositionsAt(ms, config, a, b),
                     exerciseConfig |-> config, startIdx |-> a, endIdx |-> b]
  /\ fnResult = NoCall

ApplyTemporal ==
  /\ fnArgs.fn = "calculateTemporalPatterns"
  /\ fnResult = NoCall
  /\ fnResult' = [fn |-> fnArgs.fn,
                  value |-> calculateTemporalPatterns(fnArgs.allFramesMetrics,
                                                      fnArgs.keyPositions,
                                                      fnArgs.exerciseConfig)]
  /\ UNCHANGED <<fnArgs, pc, promise, error, report, urlState, videoCreated, poseState,
                 duration, i, allFramesMetrics, failure>>
  /\ UNCHANGED inputVars
  /\ UNCHANGED logVars
  /\ UNCHANGED <<sharedVars, viewVars>>

NextTemporal == ApplyTemporal

SpecTemporal == InitTemporal /\ [][NextTemporal]_vars

\* ------------------------------------------------------------------------
\* identifyKeyPositions applied on its own
\* ------------------------------------------------------------------------
InitKeyPositions ==
  /\ InitRun
  /\ parked = NoRun
  /\ NoView
  /\ \E config \in {SQUAT_CONFIG, DEADLIFT_CONFIG} :
       \E ms \in MetricsSequences(config) :
         fnArgs = [fn |-> "identifyKeyPositions", allFramesMetrics |-> ms,
                   exerciseConfig |-> config]
  /\ fnResult = NoCall

ApplyKeyPositions ==
  /\ fnArgs.fn = "identifyKeyPositions"
  /\ fnResult = NoCall
  /\ fnResult' = [fn |-> fnArgs.fn,
                  value |-> identifyKeyPositions(fnArgs.allFramesMetrics,
                                                 fnArgs.exerciseConfig)]
  /\ UNCHANGED <<fnArgs, pc, promise, error, report, urlState, videoCreated, poseState,
                 duration, i, allFramesMetrics, failure>>
  /\ UNCHANGED inputVars
  /\ UNCHANGED logVars
  /\ UNCHANGED <<sharedVars, viewVars>>

SpecKeyPositions == InitKeyPositions /\ [][ApplyKeyPositions]_vars

\* The fields of a config's temporal analysis.
TemporalFields(config) ==
  IF config.name = "Squat"
  THEN {"hipRiseRate", "shoulderRiseRate", "riseRateRatio", "maxTorsoLean",
        "maxKneeForwardTravel", "neckExtensionMax", "minHipAngle"}
  ELSE {"avgBarPathDeviation", "maxBarPathDeviation", "maxBackAngle", "backAngleChange",
        "hipRiseRate", "shoulderRiseRate", "riseRateRatio", "neckExtensionMax"}

\* ------------------------------------------------------------------------
\* detectExerciseRiskFlags applied on its own
\* ------------------------------------------------------------------------
\* The statistics a config's detectRiskFlags compares, in the order of its
\* checks, with the descriptive clause of each flag.
RiskRules(config) ==
  IF config.name = "Squat"
  THEN << [stat |-> "maxTorsoLean", text |-> "Excessive torso lean detected"],
          [stat |-> "riseRateRatio", text |-> "Hip rising faster than shoulders"],
          [stat |-> "neckExtensionMax", text |-> "Neck hyperextension detected"],
          [stat |-> "minHipAngle", text |-> "Insufficient depth"],
          [stat |-> "maxKneeForwardTravel", text |-> "Excessive knee forward travel"] >>
  ELSE << [stat |-> "maxBackAngle", text |-> "Excessive back angle detected"],
          [stat |-> "backAngleChange", text |-> "Back rounding detected during lift"],
          [stat |-> "riseRateRatio", text |-> "Hips rising faster than shoulders"],
          [stat |-> "maxBarPathDeviation", text |-> "Bar path deviating from vertical"],
          [stat |-> "neckExtensionMax", text |-> "Neck hyperextension detected"] >>

\* Values of one statistic: around its threshold, and NaN for the neck angle
\* (calculateAngle of a zero-length ray).
RiskValues(config, stat) ==
  LET t == config.riskThresholds[stat]
  IN (t - RiskMargin)..(t + RiskMargin)
       \cup (IF stat = "neckExtensionMax" THEN {NaN} ELSE {})

\* Temporal analyses of a config: every combination of those values, the
\* fields no check reads at 0.
RiskAnalyses(config) ==
  LET rules == RiskRules(config)
      stats == {rules[k].stat : k \in 1..Len(rules)}
      unread == TemporalFields(config) \ stats
  IN { [f \in TemporalFields(config) |-> IF f \in unread THEN 0 ELSE pick[f]] :
       pick \in { g \in [stats -> UNION {RiskValues(config, st) : st \in stats}] :
                  \A st \in stats : g[st] \in RiskValues(config, st) } }

InitRiskFlags ==
  /\ InitRun
  /\ parked = NoRun
  /\ NoView
  /\ \E config \in {SQUAT_CONFIG, DEADLIFT_CONFIG} :
       \E ta \in RiskAnalyses(config) \cup {NULL} :
         fnArgs = [fn |-> "detectExerciseRiskFlags", temporalAnalysis |-> ta,
                   exerciseConfig |-> config]
  /\ fnResult = NoCall

ApplyRiskFlags ==
  /\ fnArgs.fn = "detectExerciseRiskFlags"
  /\ fnResult = NoCall
  /\ fnResult' = [fn |-> fnArgs.fn,
                  value |-> detectExerciseRiskFlags(fnArgs.temporalAnalysis,
                                                    fnArgs.exerciseConfig)]
  /\ UNCHANGED <<fnArgs, pc, promise, error, report, urlState, videoCreated, poseState,
                 duration, i, allFramesMetrics, failure>>
  /\ UNCHANGED inputVars
  /\ UNCHANGED logVars
  /\ UNCHANGED <<sharedVars, viewVars>>

SpecRiskFlags == InitRiskFlags /\ [][ApplyRiskFlags]_vars

\* ------------------------------------------------------------------------
\* The time point of a frame, computed on its own
\* ------------------------------------------------------------------------
\* const timePoint = (duration * i) / (frameCount - 1), held as the fraction
\* num / den; 0 / 0 is NaN and x / 0 with x > 0 is Infinity.
timePoint(d, idx, count) == [num |-> d * idx, den |-> count - 1]

\* Neither NaN nor an infinity.
IsFiniteNumber(t) == t.den # 0

InitTimePoint ==
  /\ InitRun
  /\ parked = NoRun
  /\ NoView
  /\ \E d \in Durations \cup {10}, count \in 1..MaxSamples :
       \E idx \in 0..(count - 1) :
         fnArgs = [fn |-> "timePoint", duration |-> d, i |-> idx, frameCount |-> count]
  /\ fnResult = NoCall

ApplyTimePoint ==
  /\ fnArgs.fn = "timePoint"
  /\ fnResult = NoCall
  /\ fnResult' = [fn |-> fnArgs.fn,
                  value |-> timePoint(fnArgs.duration, fnArgs.i, fnArgs.frameCount)]
  /\ UNCHANGED <<fnArgs, pc, promise, error, report, urlState, videoCreated, poseState,
                 duration, i, allFramesMetrics, failure>>
  /\ UNCHANGED inputVars
  /\ UNCHANGED logVars
  /\ UNCHANGED <<sharedVars, viewVars>>

SpecTimePoint == InitTimePoint /\ [][ApplyTimePoint]_vars

\* ------------------------------------------------------------------------
\* The registry's accessors applied on their own
\* ------------------------------------------------------------------------
\* EXERCISE_CONFIGS[exerciseType.toLowerCase()] || null
getExerciseConfig(name) ==
  LET found == EXERCISE_CONFIGS(toLowerCase(name))
  IN IF found = UNDEFINED THEN NULL ELSE found

\* Object.keys(EXERCISE_CONFIGS)
getSupportedExercises == EXERCISE_CONFIGS_KEYS

\* String.prototype.toUpperCase of one lower-case letter
toUpperCaseLetter(c) ==
  IF \E u \in DOMAIN UpperToLower : UpperToLower[u] = c
  THEN CHOOSE u \in DOMAIN UpperToLower : UpperToLower[u] = c
  ELSE c

\* Every letter-case variant of a lower-case name.
CaseVariants(key) ==
  { [k \in 1..Len(key) |-> IF k \in U THEN toUpperCaseLetter(key[k]) ELSE key[k]] :
    U \in SUBSET (1..Len(key)) }

\* Names handed to getExerciseConfig: the case variants of the two keys, the
\* names of ExerciseNames, the empty name, and names one letter away.
RegistryNames ==
  CaseVariants(SquatKey) \cup CaseVariants(DeadliftKey) \cup ExerciseNames
    \cup { <<>>, <<"s","q","u","a","t","s">>, <<"s","q","u","a">>,
           <<"C","o","n","s","t","r","u","c","t","o","r">>,
           <<"v","a","l","u","e","O","f">> }

InitRegistry ==
  /\ InitRun
  /\ parked = NoRun
  /\ NoView
  /\ \/ \E name \in RegistryNames : fnArgs = [fn |-> "getExerciseConfig", name |-> name]
     \/ fnArgs = [fn |-> "getSupportedExercises"]
  /\ fnResult = NoCall

ApplyGetExerciseConfig ==
  /\ fnArgs.fn = "getExerciseConfig"
  /\ fnResult = NoCall
  /\ fnResult' = [fn |-> fnArgs.fn, value |-> getExerciseConfig(fnArgs.name)]
  /\ UNCHANGED <<fnArgs, pc, promise, error, report, urlState, videoCreated, poseState,
                 duration, i, allFramesMetrics, failure>>
  /\ UNCHANGED inputVars
  /\ UNCHANGED logVars
  /\ UNCHANGED <<sharedVars, viewVars>>

ApplyGetSupportedExercises ==
  /\ fnArgs.fn = "getSupportedExercises"
  /\ fnResult = NoCall
  /\ fnResult' = [fn |-> fnArgs.fn, value |-> getSupportedExercises]
  /\ UNCHANGED <<fnArgs, pc, promise, error, report, urlState, videoCreated, poseState,
                 duration, i, allFramesMetrics, failure>>
  /\ UNCHANGED inputVars
  /\ UNCHANGED logVars
  /\ UNCHANGED <<sharedVars, viewVars>>

SpecRegistry ==
  InitRegistry /\ [][ApplyGetExerciseConfig \/ ApplyGetSupportedExercises]_vars

\* ------------------------------------------------------------------------
\* The geometry helpers applied on their own
\* ------------------------------------------------------------------------
\* Coordinates of the points handed to them, in hundredths.
GridCoordinates == {50, 55, 60}

GridPoints == { [x |-> px, y |-> py, z |-> 0] : px \in GridCoordinates, py \in GridCoordinates }

InitGeometry ==
  /\ InitRun
  /\ parked = NoRun
  /\ NoView
  /\ \/ \E p1 \in GridPoints, v \in GridPoints, p2 \in GridPoints :
          fnArgs = [fn |-> "calculateAngle", point1 |-> p1, vertex |-> v, point2 |-> p2]
     \/ \E p1 \in GridPoints, p2 \in GridPoints :
          fnArgs = [fn |-> "calculateAngleFromVertical", point1 |-> p1, point2 |-> p2]
  /\ fnResult = NoCall

ApplyCalculateAngle ==
  /\ fnArgs.fn = "calculateAngle"
  /\ fnResult = NoCall
  /\ fnResult' = [fn |-> fnArgs.fn,
                  value |-> calculateAngle(fnArgs.point1, fnArgs.vertex, fnArgs.point2)]
  /\ UNCHANGED <<fnArgs, pc, promise, error, report, urlState, videoCreated, poseState,
                 duration, i, allFramesMetrics, failure>>
  /\ UNCHANGED inputVars
  /\ UNCHANGED logVars
  /\ UNCHANGED <<sharedVars, viewVars>>

ApplyCalculateAngleFromVertical ==
  /\ fnArgs.fn = "calculateAngleFromVertical"
  /\ fnResult = NoCall
  /\ fnResult' = [fn |-> fnArgs.fn,
                  value |-> calculateAngleFromVertical(fnArgs.point1, fnArgs.point2)]
  /\ UNCHANGED <<fnArgs, pc, promise, error, report, urlState, videoCreated, poseState,
                 duration, i, allFramesMetrics, failure>>
  /\ UNCHANGED inputVars
  /\ UNCHANGED logVars
  /\ UNCHANGED <<sharedVars, viewVars>>

SpecGeometry ==
  InitGeometry /\ [][ApplyCalculateAngle \/ ApplyCalculateAngleFromVertical]_vars

\* ------------------------------------------------------------------------
\* The page: VideoUploader, the view (FormCheckView / App) and VideoPreview
\* ------------------------------------------------------------------------
\* Everything the pipeline sections above use; the page's handlers leave it
\* alone (the view sees a run only through the promise it awaits).
pipelineVars ==
  <<inputVars, pc, promise, error, report, urlState, videoCreated, poseState,
    duration, i, allFramesMetrics, failure, logVars, sharedVars, fnVars>>

MAX_FILE_SIZE == 100 * 1024 * 1024

\* seconds
MAX_DURATION == 30

ALLOWED_FORMATS == {"video/mp4", "video/quicktime", "video/x-m4v"}

\* Files handed to VideoUploader: the MIME type, the size in bytes, and the
\* duration (tenths of a second) its video element reports once the metadata
\* has loaded.
FileTypes == ALLOWED_FORMATS \cup {"video/avi"}

FileSizes == {MAX_FILE_SIZE, MAX_FILE_SIZE + 1}

FileDurations == {MAX_DURATION * 10, MAX_DURATION * 10 + 1}

Files == [type : FileTypes, size : FileSizes, duration : FileDurations]

\* Math.round of a duration held in tenths of a second
RoundSeconds(tenths) == (tenths + 5) \div 10

FormatError == [message |-> "Please upload a .mp4 or .mov file"]

SizeError == [message |-> "File size must be less than 100MB"]

\* new Error(`Video must be ${MAX_DURATION} seconds or less. Your video is
\* ${Math.round(videoElement.duration)} seconds.`)
DurationError(tenths) ==
  [message |-> "Video must be MAX_DURATION seconds or less", max |-> MAX_DURATION,
   seconds |-> RoundSeconds(tenths)]

\* validateVideo: the error it sets, or NULL where it returns true.
validateVideo(file) ==
  IF file.type \notin ALLOWED_FORMATS THEN FormatError
  ELSE IF file.size > MAX_FILE_SIZE THEN SizeError
  ELSE NULL

\* The test of the onloadedmetadata handler of checkVideoDuration: TRUE where
\* it rejects.
TooLong(file) == file.duration > MAX_DURATION * 10

\* URL.createObjectURL returns a URL never handed out before.
NewObjectUrl == [blob |-> objectUrls.created + 1]

Created(urls) == [urls EXCEPT !.created = @ + 1]

Revoked(urls, url) == [urls EXCEPT !.revoked = @ \cup {url}]

\* What is on the page.  VideoUploader is rendered in stage 'upload' only.
\* VideoPreview is rendered in the other stages; FormCheckView renders it
\* only with a file, a URL and an exercise type, and in App.jsx its render
\* throws on a null file (videoFile.name), which leaves nothing on the page.
UploaderRendered == view.stage = "upload"

PreviewRendered ==
  /\ view.stage \in {"preview", "analyzing", "results"}
  /\ view.videoFile # NULL
  /\ view.videoUrl # NULL
  /\ view.exerciseType # NULL

isAnalyzing == view.stage = "analyzing"

\* VideoPreview: the button 'Analyze Form' replaces 'Upload Another Video'
\* while there are no results and is disabled while analyzing; 'Remove' is
\* rendered with no results and not analyzing.
AnalyzeEnabled == PreviewRendered /\ view.results = NULL /\ ~isAnalyzing

RemoveShown == PreviewRendered /\ view.results = NULL /\ ~isAnalyzing

UploadAnotherShown == PreviewRendered /\ view.results # NULL

\* The exercise buttons of VideoUploader.
SetExerciseType(exercise) ==
  /\ UploaderRendered
  /\ uploader' = [uploader EXCEPT !.exerciseType = exercise]
  /\ UNCHANGED <<appVariant, view, handleFileCalls, handleAnalyzeCalls, objectUrls,
                 onVideoSelectedCall, handleFileEvent>>
  /\ UNCHANGED pipelineVars

\* handleFile up to its await: the error is cleared, the file validated, an
\* object URL created for a video element, and the call waits for the
\* element's metadata.  The call keeps the exerciseType of the render it was
\* made from.
handleFile(file) ==
  /\ UploaderRendered
  /\ IF validateVideo(file) # NULL
     THEN /\ uploader' = [uploader EXCEPT !.error = validateVideo(file)]
          /\ handleFileEvent' = [file |-> file, event |-> "returned"]
          /\ UNCHANGED <<handleFileCalls, objectUrls>>
     ELSE /\ Cardinality(handleFileCalls) < MaxHandleFiles
          /\ objectUrls.created + Cardinality(handleFileCalls) + 2 <= MaxObjectUrls
          /\ uploader' = [uploader EXCEPT !.error = NULL]
          /\ handleFileEvent' = [file |-> file, event |-> "awaiting"]
          /\ objectUrls' = Created(objectUrls)
          /\ handleFileCalls' =
               handleFileCalls \cup
                 {[file |-> file, exerciseType |-> uploader.exerciseType,
                   url |-> NewObjectUrl, mounted |-> TRUE]}
  /\ UNCHANGED <<appVariant, view, handleAnalyzeCalls, onVideoSelectedCall>>
  /\ UNCHANGED pipelineVars

\* handleVideoSelected of the view
handleVideoSelected(v, file, exercise, url) ==
  [v EXCEPT !.videoFile = file, !.videoUrl = url, !.exerciseType = exercise,
            !.stage = "preview"]

\* The video element of a waiting handleFile call fires loadedmetadata.  A
\* duration above the maximum rejects: the catch sets the error (of the
\* uploader the call was made from, if it is still mounted) and revokes the
\* call's URL.  Otherwise onVideoSelected runs handleVideoSelected, and the
\* view leaves stage 'upload', which unmounts the uploader.
onloadedmetadata(call) ==
  /\ call \in handleFileCalls
  /\ IF TooLong(call.file)
     THEN /\ uploader' =
               IF call.mounted
               THEN [uploader EXCEPT !.error = DurationError(call.file.duration)]
               ELSE uploader
          /\ objectUrls' = Revoked(objectUrls, call.url)
          /\ handleFileCalls' = handleFileCalls \ {call}
          /\ handleFileEvent' = [file |-> call.file, event |-> "rejected"]
          /\ UNCHANGED <<view, onVideoSelectedCall>>
     ELSE /\ view' = handleVideoSelected(view, call.file, call.exerciseType, NewObjectUrl)
          /\ objectUrls' = Created(objectUrls)
          /\ onVideoSelectedCall' =
               [file |-> call.file, exerciseType |-> call.exerciseType,
                selected |-> IF call.mounted THEN uploader.exerciseType ELSE NULL,
                url |-> NewObjectUrl]
          /\ uploader' = InitialUploader
          /\ handleFileEvent' = NoCall
          /\ handleFileCalls' =
               {[c EXCEPT !.mounted = FALSE] : c \in handleFileCalls \ {call}}
  /\ UNCHANGED <<appVariant, handleAnalyzeCalls>>
  /\ UNCHANGED pipelineVars

RequiredError == [message |-> "Video file and exercise type are required"]

\* The call handleAnalyze makes: FormCheckView calls
\* analyzeExerciseVideo(videoFile, exerciseType, 8); App.jsx calls
\* analyzeSquatVideo(videoFile, 8, callback), which is
\* analyzeExerciseVideo(videoFile, 'squat', 8, callback).  videoUrl is not an
\* argument: it records the selection the call was made for.
AnalysisCall(app, v) ==
  [ videoFile |-> v.videoFile,
    exerciseType |-> IF app = "tsx" THEN v.exerciseType ELSE SquatKey,
    frameCount |-> 8,
    awaiting |-> "analysis",
    videoUrl |-> v.videoUrl ]

\* handleAnalyze up to its first await
handleAnalyze ==
  /\ AnalyzeEnabled
  /\ IF appVariant = "tsx" /\ (view.videoFile = NULL \/ view.exerciseType = NULL)
     THEN /\ view' = [view EXCEPT !.error = RequiredError]
          /\ UNCHANGED handleAnalyzeCalls
     ELSE /\ Len(handleAnalyzeCalls) < MaxAnalyses
          /\ view' = [view EXCEPT !.stage = "analyzing", !.error = NULL]
          /\ handleAnalyzeCalls' = Append(handleAnalyzeCalls, AnalysisCall(appVariant, view))
  /\ UNCHANGED <<appVariant, uploader, handleFileCalls, objectUrls, onVideoSelectedCall,
                 handleFileEvent>>
  /\ UNCHANGED pipelineVars

\* handleAnalyzeCalls without its k-th element
WithoutCall(calls, k) ==
  [j \in 1..(Len(calls) - 1) |-> IF j < k THEN calls[j] ELSE calls[j + 1]]

\* catch (err): setError(err.message); setStage('preview')
CatchError(v, err) == [v EXCEPT !.error = err, !.stage = "preview"]

\* setResults(data); setStage('results')
ShowResults(v, data) == [v EXCEPT !.results = data, !.stage = "results"]

\* The rejections of analyzeExerciseVideo for a supported exercise name.
AnalysisErrors == {LoadError, PoseNotDetectedError, InitError("ts"), InitError("js")}

\* The promise of analyzeExerciseVideo settles (it may also stay pending for
\* ever: then the call never leaves its await).  Resolved, the report is
\* posted to the backend; rejected, the catch returns the view to 'preview'.
AnalysisResolves(k) ==
  /\ k \in 1..Len(handleAnalyzeCalls)
  /\ handleAnalyzeCalls[k].awaiting = "analysis"
  /\ handleAnalyzeCalls' = [handleAnalyzeCalls EXCEPT ![k].awaiting = "fetch"]
  /\ UNCHANGED <<appVariant, view, uploader, handleFileCalls, objectUrls,
                 onVideoSelectedCall, handleFileEvent>>
  /\ UNCHANGED pipelineVars

AnalysisRejects(k, err) ==
  /\ k \in 1..Len(handleAnalyzeCalls)
  /\ handleAnalyzeCalls[k].awaiting = "analysis"
  /\ view' = CatchError(view, err)
  /\ handleAnalyzeCalls' = WithoutCall(handleAnalyzeCalls, k)
  /\ UNCHANGED <<appVariant, uploader, handleFileCalls, objectUrls, onVideoSelectedCall,
                 handleFileEvent>>
  /\ UNCHANGED pipelineVars

\* What the fetch of /api/analyze-form comes to: a response that is ok with
\* the analysis, a response that is not ok with or without a detail, or a
\* rejection (the backend cannot be reached).
AnalysisFailed == [message |-> "Analysis failed"]

FetchFailed == [message |-> "Failed to fetch"]

Responses ==
  { [ok |-> TRUE, body |-> [analysis |-> "feedback"]],
    [ok |-> FALSE, body |-> [detail |-> [message |-> "Backend processing failed"]]],
    [ok |-> FALSE, body |-> [detail |-> UNDEFINED]] }

\* errorData.detail || 'Analysis failed'
DetailOr(detail, fallback) == IF detail = UNDEFINED THEN fallback ELSE detail

\* The rest of handleAnalyze, from the response on.
AfterFetch(v, response) ==
  IF ~response.ok
  THEN CatchError(v, DetailOr(response.body.detail, AnalysisFailed))
  ELSE ShowResults(v, response.body)

FetchResolves(k, response) ==
  /\ k \in 1..Len(handleAnalyzeCalls)
  /\ handleAnalyzeCalls[k].awaiting = "fetch"
  /\ view' = AfterFetch(view, response)
  /\ handleAnalyzeCalls' = WithoutCall(handleAnalyzeCalls, k)
  /\ UNCHANGED <<appVariant, uploader, handleFileCalls, objectUrls, onVideoSelectedCall,
                 handleFileEvent>>
  /\ UNCHANGED pipelineVars

FetchRejects(k) ==
  /\ k \in 1..Len(handleAnalyzeCalls)
  /\ handleAnalyzeCalls[k].awaiting = "fetch"
  /\ view' = CatchError(view, FetchFailed)
  /\ handleAnalyzeCalls' = WithoutCall(handleAnalyzeCalls, k)
  /\ UNCHANGED <<appVariant, uploader, handleFileCalls, objectUrls, onVideoSelectedCall,
                 handleFileEvent>>
  /\ UNCHANGED pipelineVars

NoUrlsToRevoke(v) == {}

\* The URLs handleUploadAnother revokes
UrlsToRevoke(v) == IF v.videoUrl # NULL THEN {v.videoUrl} ELSE {}

\* The state handleUploadAnother sets
ResetView(v) ==
  [v EXCEPT !.videoFile = NULL, !.videoUrl = NULL, !.exerciseType = NULL,
            !.results = NULL, !.error = NULL, !.stage = "upload"]

\* handleUploadAnother, behind 'Remove' and 'Upload Another Video'.  The
\* view returns to stage 'upload', which mounts a fresh VideoUploader.
handleUploadAnother ==
  /\ RemoveShown \/ UploadAnotherShown
  /\ objectUrls' = [objectUrls EXCEPT !.revoked = @ \cup UrlsToRevoke(view)]
  /\ view' = ResetView(view)
  /\ uploader' = InitialUploader
  /\ handleFileEvent' = NoCall
  /\ UNCHANGED <<appVariant, handleFileCalls, handleAnalyzeCalls, onVideoSelectedCall>>
  /\ UNCHANGED pipelineVars

AppVariants == {"tsx", "jsx"}

\* Every handleFile call there can be
HandleFileCalls ==
  [ file : Files, exerciseType : {SquatKey, DeadliftKey},
    url : [blob : 1..MaxObjectUrls], mounted : BOOLEAN ]

ExerciseButtons == {SquatKey, DeadliftKey}

InitPage ==
  /\ InitRun
  /\ parked = NoRun
  /\ fnArgs = NoCall
  /\ fnResult = NoCall
  /\ appVariant \in AppVariants
  /\ InitView

NextPage ==
  \/ \E exercise \in ExerciseButtons : SetExerciseType(exercise)
  \/ \E file \in Files : handleFile(file)
  \/ \E call \in HandleFileCalls : onloadedmetadata(call)
  \/ handleAnalyze
  \/ \E k \in 1..MaxAnalyses : AnalysisResolves(k)
  \/ \E k \in 1..MaxAnalyses, err \in AnalysisErrors : AnalysisRejects(k, err)
  \/ \E k \in 1..MaxAnalyses, response \in Responses : FetchResolves(k, response)
  \/ \E k \in 1..MaxAnalyses : FetchRejects(k)
  \/ handleUploadAnother

SpecPage == InitPage /\ [][NextPage]_vars

\* ------------------------------------------------------------------------
\* The analysis of an accepted sequence: temporal patterns, then risk flags
\* ------------------------------------------------------------------------
\* hipHeight and shoulderHeight of a frame, in thousandths, and the
\* barPathDeviation of a deadlift frame, in tenths of a percent.
FrameReadings ==
  { [hipHeight |-> 400, shoulderHeight |-> 700, barPathDeviation |-> 0],
    [hipHeight |-> 550, shoulderHeight |-> 700, barPathDeviation |-> 35],
    [hipHeight |-> 550, shoulderHeight |-> 760, barPathDeviation |-> 0],
    [hipHeight |-> 450, shoulderHeight |-> 900, barPathDeviation |-> 80] }

\* The metrics of a pose with those readings.
WithReadings(metrics, r) ==
  [f \in DOMAIN metrics |-> IF f \in DOMAIN r THEN r[f] ELSE metrics[f]]

\* Metrics of the standing and setup poses with those readings.
AnalysisFrames(config) ==
  { WithReadings(calculateMetrics(lm, config), r) :
      lm \in {StandingLandmarks, SetupLandmarks}, r \in FrameReadings }

AnalysisSequences(config) ==
  UNION { [1..n -> AnalysisFrames(config)] : n \in 1..MaxAnalysisSeq }

InitAnalysis ==
  /\ InitRun
  /\ parked = NoRun
  /\ NoView
  /\ \E config \in {SQUAT_CONFIG, DEADLIFT_CONFIG} :
       \E ms \in AnalysisSequences(config) :
         \E a \in 0..(Len(ms) - 1), b \in 0..(Len(ms) - 1) :
           fnArgs = [fn |-> "analyzeTemporalPatterns", allFramesMetrics |-> ms,
                     keyPositions |-> KeyPositionsAt(ms, config, a, b),
                     exerciseConfig |-> config, startIdx |-> a, endIdx |-> b]
  /\ fnResult = NoCall

\* const temporalAnalysis = analyzeTemporalPatterns(...);
\* const riskFlags = detectExerciseRiskFlags(temporalAnalysis, ...)
ApplyAnalysis ==
  /\ fnArgs.fn = "analyzeTemporalPatterns"
  /\ fnResult = NoCall
  /\ LET temporalAnalysis ==
           analyzeTemporalPatterns(fnArgs.allFramesMetrics, fnArgs.keyPositions,
                                   fnArgs.exerciseConfig)
     IN fnResult' = [fn |-> fnArgs.fn,
                     value |-> temporalAnalysis,
                     riskFlags |-> detectExerciseRiskFlags(temporalAnalysis,
                                                           fnArgs.exerciseConfig)]
  /\ UNCHANGED <<fnArgs, pc, promise, error, report, urlState, videoCreated, poseState,
                 duration, i, allFramesMetrics, failure>>
  /\ UNCHANGED inputVars
  /\ UNCHANGED logVars
  /\ UNCHANGED <<sharedVars, viewVars>>

SpecAnalysis == InitAnalysis /\ [][ApplyAnalysis]_vars

\* ------------------------------------------------------------------------
\* sanitizeVideoUrl and the video element of VideoPreview
\* ------------------------------------------------------------------------
\* Strings are sequences of characters.
EmptyString == <<>>

BlobProtocol == <<"b","l","o","b",":">>

\* new URL(...) throws a TypeError on a string that does not parse.
ParseFailure == [throw |-> "TypeError: Invalid URL"]

\* new URL(input) without a base
NoBase == [base |-> "none"]

IsAsciiAlpha(c) ==
  c \in DOMAIN UpperToLower \/ c \in {UpperToLower[u] : u \in DOMAIN UpperToLower}

IsSchemeChar(c) == IsAsciiAlpha(c) \/ c \in {"0", "1", "2", "3", "+", "-", "."}

\* The URL parser strips leading and trailing spaces and removes tabs and
\* newlines from its input.
RECURSIVE StripLeading(_)
StripLeading(s) == IF s # <<>> /\ s[1] = " " THEN StripLeading(Tail(s)) ELSE s

RECURSIVE StripTrailing(_)
StripTrailing(s) ==
  IF s # <<>> /\ s[Len(s)] = " " THEN StripTrailing(SubSeq(s, 1, Len(s) - 1)) ELSE s

IsTabOrNewline(c) == c \in {"\t", "\n"}

NotTabOrNewline(c) == ~IsTabOrNewline(c)

Cleaned(s) == SelectSeq(StripTrailing(StripLeading(s)), NotTabOrNewline)

\* The position of the first ':' of s, or 0.
FirstColon(s) ==
  IF \E k \in 1..Len(s) : s[k] = ":"
  THEN CHOOSE k \in 1..Len(s) : s[k] = ":" /\ \A j \in 1..(k - 1) : s[j] # ":"
  ELSE 0

\* s starts with a scheme: a letter, then letters, digits, '+', '-', '.', up
\* to a ':'.
HasScheme(s) ==
  /\ FirstColon(s) > 1
  /\ IsAsciiAlpha(s[1])
  /\ \A j \in 2..(FirstColon(s) - 1) : IsSchemeChar(s[j])

SchemeOf(s) == toLowerCase(SubSeq(s, 1, FirstColon(s) - 1))

AfterScheme(s) == SubSeq(s, FirstColon(s) + 1, Len(s))

FileScheme == <<"f","i","l","e">>

SpecialSchemes ==
  { <<"h","t","t","p">>, <<"h","t","t","p","s">>, <<"f","t","p">>, <<"w","s">>, <<"w","s","s">>,
    FileScheme }

IsSlash(c) == c \in {"/", "\\"}

RECURSIVE SkipSlashes(_)
SkipSlashes(s) == IF s # <<>> /\ IsSlash(s[1]) THEN SkipSlashes(Tail(s)) ELSE s

\* The host of a special URL is empty: nothing stands between the slashes
\* and the path, query or fragment.
EmptyHost(rest) ==
  LET h == SkipSlashes(rest) IN h = <<>> \/ h[1] \in {"/", "?", "#"}

\* new URL(input, base), as far as the protocol of the result: a record of
\* the scheme and of whether the path is opaque (a URL with an opaque path
\* cannot be a base, except for a fragment), or ParseFailure.
NewURL(input, base) ==
  LET s == Cleaned(input)
  IN IF HasScheme(s)
     THEN IF SchemeOf(s) \in SpecialSchemes
          THEN IF /\ base # NoBase
                  /\ base.scheme = SchemeOf(s)
                  /\ (AfterScheme(s) = <<>> \/ ~IsSlash(AfterScheme(s)[1]))
               THEN [scheme |-> SchemeOf(s), opaquePath |-> FALSE]
               ELSE IF SchemeOf(s) # FileScheme /\ EmptyHost(AfterScheme(s))
               THEN ParseFailure
               ELSE [scheme |-> SchemeOf(s), opaquePath |-> FALSE]
          ELSE [ scheme |-> SchemeOf(s),
                 opaquePath |-> AfterScheme(s) = <<>> \/ AfterScheme(s)[1] # "/" ]
     ELSE IF base = NoBase THEN ParseFailure
     ELSE IF base.opaquePath
     THEN IF s # <<>> /\ s[1] = "#" THEN base ELSE ParseFailure
     ELSE IF /\ Len(s) >= 2 /\ IsSlash(s[1]) /\ IsSlash(s[2])
             /\ base.scheme # FileScheme /\ EmptyHost(s)
     THEN ParseFailure
     ELSE [scheme |-> base.scheme, opaquePath |-> FALSE]

\* parsedUrl.protocol
Protocol(parsedUrl) == parsedUrl.scheme \o <<":">>

\* url.startsWith('blob:') in place of the parse
sanitizeVideoUrlByPrefix(url, href) ==
  IF Len(url) >= 5 /\ SubSeq(url, 1, 5) = BlobProtocol THEN url ELSE EmptyString

\* sanitizeVideoUrl(url) on a page whose window.location.href is href
sanitizeVideoUrl(url, href) ==
  LET parsedUrl == NewURL(url, NewURL(href, NoBase))
  IN IF parsedUrl = ParseFailure THEN EmptyString
     ELSE IF Protocol(parsedUrl) = BlobProtocol THEN url
     ELSE EmptyString

\* The src attribute of the video element VideoPreview renders
\* (src={videoUrl}).
VideoPreviewSrc(videoUrl) == videoUrl

\* URLs handed to sanitizeVideoUrl and to VideoPreview: a scheme in either
\* letter case or none, after nothing, a space or a tab, before a short rest.
UrlSchemes ==
  { <<"b","l","o","b",":">>,
    <<"B","L","O","B",":">>,
    <<"j","a","v","a","s","c","r","i","p","t",":">>,
    <<"J","a","v","a","S","c","r","i","p","t",":">>,
    <<"d","a","t","a",":">>,
    <<"h","t","t","p",":">>,
    <<"h","t","t","p","s",":">>,
    <<"f","i","l","e",":">>,
    <<"v","b","s","c","r","i","p","t",":">>,
    <<>> }

UrlPrefixes == {<<>>, <<" ">>, <<"\t">>}

UrlRests ==
  { <<>>, <<"x">>, <<"/","/","h","/","p">>, <<"#","f">>, <<"a"," ","b">> }

Urls == {pre \o sch \o rest : pre \in UrlPrefixes, sch \in UrlSchemes, rest \in UrlRests}

\* Page locations: an http page, an https page, a page opened from a blob
\* URL, about:blank, and a page opened from a file.
PageLocations ==
  { <<"h","t","t","p",":","/","/","h","/">>,
    <<"h","t","t","p","s",":","/","/","h","/","a">>,
    <<"b","l","o","b",":","h","t","t","p",":","/","/","h","/","u">>,
    <<"a","b","o","u","t",":","b","l","a","n","k">>,
    <<"f","i","l","e",":","/","/","/","i">> }

InitSanitizer ==
  /\ InitRun
  /\ parked = NoRun
  /\ NoView
  /\ fnArgs \in [fn : {"sanitizeVideoUrl", "VideoPreview"}, url : Urls, href : PageLocations]
  /\ fnResult = NoCall

ApplySanitizeVideoUrl ==
  /\ fnArgs.fn = "sanitizeVideoUrl"
  /\ fnResult = NoCall
  /\ fnResult' = [value |-> sanitizeVideoUrl(fnArgs.url, fnArgs.href)]
  /\ UNCHANGED fnArgs
  /\ UNCHANGED <<pc, promise, error, report, urlState, videoCreated, poseState,
                 duration, i, allFramesMetrics, failure>>
  /\ UNCHANGED inputVars
  /\ UNCHANGED logVars
  /\ UNCHANGED <<sharedVars, viewVars>>

ApplyVideoPreview ==
  /\ fnArgs.fn = "VideoPreview"
  /\ fnResult = NoCall
  /\ fnResult' = [value |-> VideoPreviewSrc(fnArgs.url)]
  /\ UNCHANGED fnArgs
  /\ UNCHANGED <<pc, promise, error, report, urlState, videoCreated, poseState,
                 duration, i, allFramesMetrics, failure>>
  /\ UNCHANGED inputVars
  /\ UNCHANGED logVars
  /\ UNCHANGED <<sharedVars, viewVars>>

SpecSanitizer == InitSanitizer /\ [][ApplySanitizeVideoUrl \/ ApplyVideoPreview]_vars

\* ------------------------------------------------------------------------
\* Properties
\* ------------------------------------------------------------------------
SupportedKeys == {SquatKey, DeadliftKey}

\* The run has left the frame loop through its end.
LoopCompleted == pc \in {"returned", "crashed"} /\ poseState = "closed"

\* A required role fails: its landmark is missing, or its visibility is a
\* number strictly below the role's effective threshold.
RoleFails(landmarks, config, k) ==
  LET e == config.requiredLandmarks[k]
  IN \/ IsMissing(landmarks, e.index)
     \/ /\ landmarks.pts[e.index].visibility # UndefinedVis
        /\ landmarks.pts[e.index].visibility < EffectiveThreshold(config, e.name)

\* C1: calculateExerciseMetrics returns null whenever some required role is
\* missing or has a visibility strictly below its effective threshold (0
\* included), so that a metrics record is never computed from such a joint.
C1_VisibilityGating ==
  (fnArgs.fn = "calculateExerciseMetrics" /\ fnResult # NoCall) =>
    ( (\E k \in 1..Len(fnArgs.exerciseConfig.requiredLandmarks) :
         RoleFails(fnArgs.landmarks, fnArgs.exerciseConfig, k))
      => fnResult.value = NULL )

\* C2: whenever a run has ended or can go no further, the object URL it
\* created has been revoked.
C2_UrlRevokedOnEveryExit ==
  pc \in {"returned", "stuck", "crashed"} => urlState # "live"

\* C3: every run that passed the exercise-name check eventually settles, with
\* a report or with a failure.
C3_RunSettles ==
  (pc # "idle" /\ exerciseConfig # UNDEFINED) ~> (promise \in {"resolved", "rejected"})

\* C4: after a video load error, a pose initialization failure or a failed
\* pose.send, the run is rejected with an error wrapped with the failing
\* stage, without a report, and with the object URL revoked.
C4_UpstreamFailureWrapped ==
  failure \in {"load", "init", "send"} =>
    /\ promise = "rejected"
    /\ error.wrapped
    /\ error.stage = failure
    /\ report = NULL
    /\ urlState = "revoked"

\* C5: a call with a name other than squat or deadlift (in any letter case)
\* is rejected with the unsupported-exercise error listing squat and deadlift,
\* and creates no object URL, video element or pose estimator and reports no
\* progress.
C5_UnknownNameFailsFast ==
  (pc # "idle" /\ toLowerCase(exerciseType) \notin SupportedKeys) =>
    /\ promise = "rejected"
    /\ error = UnsupportedError(exerciseType, <<SquatKey, DeadliftKey>>)
    /\ urlState = "none"
    /\ ~videoCreated
    /\ poseState = "none"
    /\ progressLog = <<>>

\* C6: identifyKeyPositions is never called with an empty sequence, and a run
\* that leaves the frame loop with no accepted frame is rejected with the
\* pose-not-detected error and delivers no report.
C6_NoReportWithoutFrames ==
  /\ \A k \in 1..Len(kpCalls) : kpCalls[k] >= 1
  /\ (LoopCompleted /\ acceptedLog = <<>>) =>
       /\ promise = "rejected"
       /\ error = PoseNotDetectedError
       /\ report = NULL

C6_Witness ==
  /\ LoopCompleted
  /\ exerciseConfig = SQUAT_CONFIG
  /\ Len(resultsLog) = 2
  /\ acceptedLog = <<>>
  /\ error = PoseNotDetectedError

\* C7: frames are processed one at a time in increasing sample index: the
\* k-th seek, send and listener run are those of frame k-1, a frame is sought
\* only after the listener of the frame before has run, and accepted metrics
\* are appended in frame order.
C7_FramesSequential ==
  /\ \A k \in 1..Len(seekLog) : seekLog[k].index = k - 1
  /\ \A k \in 1..Len(sentLog) : sentLog[k] = k - 1
  /\ \A k \in 1..Len(resultsLog) : resultsLog[k] = k - 1
  /\ Len(resultsLog) <= Len(sentLog)
  /\ Len(sentLog) <= Len(seekLog)
  /\ Len(seekLog) <= Len(resultsLog) + 1
  /\ \A k \in 1..(Len(acceptedLog) - 1) : acceptedLog[k] < acceptedLog[k + 1]

C7_Witness ==
  /\ pc = "sending"
  /\ Len(seekLog) = 3
  /\ Len(resultsLog) = 2
  /\ acceptedLog = <<0, 1>>

\* C8: no frame is sent twice, a rejected frame does not fail a run that has
\* an accepted one, and a resolved run reports as frameCount the number of
\* accepted frames, between 1 and the requested count, after sending every
\* sampled frame once.
C8_FrameCountIsAccepted ==
  /\ \A k, m \in 1..Len(sentLog) : sentLog[k] = sentLog[m] => k = m
  /\ (LoopCompleted /\ acceptedLog # <<>>) => promise = "resolved"
  /\ promise = "resolved" =>
       /\ report.frameCount = Len(acceptedLog)
       /\ 1 <= report.frameCount
       /\ report.frameCount <= frameCount
       /\ Len(sentLog) = frameCount

C8_Witness ==
  /\ promise = "resolved"
  /\ frameCount = 3
  /\ report.frameCount = 1
  /\ acceptedLog = <<1>>

\* The active phase of the accepted sequence is degenerate.
ActivePhaseDegenerate(metrics, config) ==
  LET keyPositions == identifyKeyPositions(metrics, config)
  IN IF config.name = "Squat"
     THEN keyPositions.bottomPosition.frame >= keyPositions.completion.frame
     ELSE keyPositions.startOfPull.frame >= keyPositions.lockout.frame

\* C9: a run that leaves the loop with accepted frames but a degenerate
\* active phase resolves with temporalAnalysis null and no risk flags, and
\* never calls the config's risk-flag detector.
C9_DegenerateRunSucceeds ==
  (LoopCompleted /\ Len(allFramesMetrics) >= 1
     /\ ActivePhaseDegenerate(allFramesMetrics, exerciseConfig)) =>
    /\ promise = "resolved"
    /\ report.temporalAnalysis = NULL
    /\ report.riskFlags = <<>>
    /\ detectorCalls = 0

C9_Witness ==
  /\ promise = "resolved"
  /\ exerciseConfig = SQUAT_CONFIG
  /\ report.frameCount = 2
  /\ report.keyPositions.bottomPosition.frame = 1
  /\ report.temporalAnalysis = NULL

\* C10: calculateTemporalPatterns returns null exactly when the start frame
\* of the active phase is at or after its end frame, and otherwise a record
\* holding a number in every statistics field.
C10_NullIffDegenerate ==
  (fnArgs.fn = "calculateTemporalPatterns" /\ fnResult # NoCall) =>
    /\ fnResult.value = NULL <=> fnArgs.startIdx >= fnArgs.endIdx
    /\ fnArgs.startIdx < fnArgs.endIdx =>
         /\ DOMAIN fnResult.value = TemporalFields(fnArgs.exerciseConfig)
         /\ \A f \in DOMAIN fnResult.value :
              fnResult.value[f] \in Int /\ fnResult.value[f] # NaN

C10_Witness ==
  /\ fnArgs.fn = "calculateTemporalPatterns"
  /\ fnResult # NoCall
  /\ fnArgs.exerciseConfig = DEADLIFT_CONFIG
  /\ fnArgs.startIdx = 0
  /\ fnArgs.endIdx = 2
  /\ fnResult.value # NULL
  /\ fnResult.value.hipRiseRate > 0

\* The first frame of metrics attaining the least (sign = 1) or greatest
\* (sign = -1) value of a field.
FirstExtremum(metrics, field, sign) ==
  CHOOSE k \in 0..(Len(metrics) - 1) :
    /\ \A j \in 0..(Len(metrics) - 1) :
         sign * metrics[k + 1][field] <= sign * metrics[j + 1][field]
    /\ \A j \in 0..(k - 1) :
         sign * metrics[j + 1][field] > sign * metrics[k + 1][field]

\* C11: on a non-empty sequence identifyKeyPositions puts setup at frame 0 and
\* completion at the last frame, the squat's bottomPosition at the first frame
\* of least hipHeight, the deadlift's startOfPull at the first frame of least
\* wristHeight and its lockout at the first frame of greatest hipHeight; each
\* position carries the metrics of its frame.
C11_KeyPositionsFirstExtremum ==
  (fnArgs.fn = "identifyKeyPositions" /\ fnResult # NoCall) =>
    LET ms == fnArgs.allFramesMetrics
        kp == fnResult.value
    IN /\ kp.setup.frame = 0
       /\ kp.completion.frame = Len(ms) - 1
       /\ \A pos \in DOMAIN kp : kp[pos] = [frame |-> kp[pos].frame] @@ ms[kp[pos].frame + 1]
       /\ IF fnArgs.exerciseConfig.name = "Squat"
          THEN /\ DOMAIN kp = {"setup", "bottomPosition", "completion"}
               /\ kp.bottomPosition.frame = FirstExtremum(ms, "hipHeight", 1)
          ELSE /\ DOMAIN kp = {"setup", "startOfPull", "lockout", "completion"}
               /\ kp.startOfPull.frame = FirstExtremum(ms, "wristHeight", 1)
               /\ kp.lockout.frame = FirstExtremum(ms, "hipHeight", -1)

\* The least hipHeight is attained at frames 1 and 2 of three.
C11_Witness ==
  /\ fnArgs.fn = "identifyKeyPositions"
  /\ fnResult # NoCall
  /\ fnArgs.exerciseConfig = SQUAT_CONFIG
  /\ Len(fnArgs.allFramesMetrics) = 3
  /\ fnArgs.allFramesMetrics[2].hipHeight = fnArgs.allFramesMetrics[3].hipHeight
  /\ fnArgs.allFramesMetrics[2].hipHeight < fnArgs.allFramesMetrics[1].hipHeight
  /\ fnResult.value.bottomPosition.frame = 1

\* The flag list was computed from a non-null temporal analysis.
RiskFlagsComputed ==
  fnArgs.fn = "detectExerciseRiskFlags" /\ fnResult # NoCall /\ fnArgs.temporalAnalysis # NULL

\* The statistic of a rule is strictly above the rule's threshold.
AboveThreshold(ta, config, rule) ==
  ta[rule.stat] # NaN /\ ta[rule.stat] > config.riskThresholds[rule.stat]

\* C12: for each rule of either exercise, the rule's flag is in the list
\* returned by detectRiskFlags exactly when the rule's statistic is strictly
\* greater than its threshold, whatever the other statistics are.
C12_FlagIffAboveThreshold ==
  RiskFlagsComputed =>
    LET rules == RiskRules(fnArgs.exerciseConfig)
    IN \A r \in 1..Len(rules) :
         (\E k \in 1..Len(fnResult.value) : fnResult.value[k].text = rules[r].text)
           <=> AboveThreshold(fnArgs.temporalAnalysis, fnArgs.exerciseConfig, rules[r])

\* One statistic at its threshold, the next one unit above, the others below.
C12_Witness ==
  /\ RiskFlagsComputed
  /\ fnArgs.exerciseConfig = SQUAT_CONFIG
  /\ fnArgs.temporalAnalysis.maxTorsoLean = SQUAT_CONFIG.riskThresholds.maxTorsoLean
  /\ fnArgs.temporalAnalysis.riseRateRatio = SQUAT_CONFIG.riskThresholds.riseRateRatio + 1
  /\ Len(fnResult.value) = 1
  /\ fnResult.value[1].text = "Hip rising faster than shoulders"

\* The place of a descriptive clause in the check order of a config (0 if it
\* is not one of the config's clauses).
CheckOrder(config, text) ==
  LET rules == RiskRules(config)
  IN IF \E r \in 1..Len(rules) : rules[r].text = text
     THEN CHOOSE r \in 1..Len(rules) : rules[r].text = text
     ELSE 0

\* C13: the returned flags follow the exercise's check order without
\* repetition (so at most five of them), and the list is empty when no
\* statistic is above its threshold or the temporal analysis is null.
C13_FlagsInCheckOrder ==
  (fnArgs.fn = "detectExerciseRiskFlags" /\ fnResult # NoCall) =>
    LET config == fnArgs.exerciseConfig
        flags == fnResult.value
        rules == RiskRules(config)
    IN /\ Len(flags) <= 5
       /\ \A k \in 1..Len(flags) : CheckOrder(config, flags[k].text) >= 1
       /\ \A k \in 1..(Len(flags) - 1) :
            CheckOrder(config, flags[k].text) < CheckOrder(config, flags[k + 1].text)
       /\ ( \/ fnArgs.temporalAnalysis = NULL
            \/ \A r \in 1..Len(rules) :
                 ~AboveThreshold(fnArgs.temporalAnalysis, config, rules[r]) )
            => flags = <<>>

\* Every deadlift rule fires.
C13_Witness ==
  /\ RiskFlagsComputed
  /\ fnArgs.exerciseConfig = DEADLIFT_CONFIG
  /\ Len(fnResult.value) = 5
  /\ fnResult.value[1].text = "Excessive back angle detected"
  /\ fnResult.value[5].text = "Neck hyperextension detected"

\* The rule of a config that emits the flag with this descriptive clause.
RuleOf(config, text) == RiskRules(config)[CheckOrder(config, text)]

\* A flag embeds the measured value and the threshold of its rule, each
\* followed by the same unit.
EmbedsValueAndThreshold(flag, ta, config) ==
  LET stat == RuleOf(config, flag.text).stat
  IN /\ flag.value = ta[stat]
     /\ flag.threshold = config.riskThresholds[stat]
     /\ flag.unit \in {"deg", "%", ""}

\* C14 as stated: every flag reads
\*   <clause> (<value><unit> - threshold: <threshold><unit>)
\* with the measured value (possibly labelled) and the rule's threshold
\* introduced by "threshold: ".
C14_FlagFormatAsStated ==
  RiskFlagsComputed =>
    \A k \in 1..Len(fnResult.value) :
      /\ EmbedsValueAndThreshold(fnResult.value[k], fnArgs.temporalAnalysis,
                                 fnArgs.exerciseConfig)
      /\ fnResult.value[k].marker = "threshold: "

\* C14, amended: every flag reads
\*   <clause> (<label><value><unit> - <marker><threshold><unit>)
\* with the measured value and the rule's threshold; the marker is
\* "threshold: " for every rule except the squat's insufficient-depth rule,
\* whose marker is "target: <", and the label is empty or one of "ratio: ",
\* "change: ", "hip angle: ".
C14_FlagEmbedsValueAndThreshold ==
  RiskFlagsComputed =>
    \A k \in 1..Len(fnResult.value) :
      LET flag == fnResult.value[k]
      IN /\ EmbedsValueAndThreshold(flag, fnArgs.temporalAnalysis, fnArgs.exerciseConfig)
         /\ flag.marker = IF flag.text = "Insufficient depth" THEN "target: <"
                          ELSE "threshold: "
         /\ flag.label \in {"", "ratio: ", "change: ", "hip angle: "}

\* The insufficient-depth flag and a flag with the usual marker together.
C14_Witness ==
  /\ RiskFlagsComputed
  /\ fnArgs.exerciseConfig = SQUAT_CONFIG
  /\ Len(fnResult.value) = 2
  /\ fnResult.value[1].text = "Excessive torso lean detected"
  /\ fnResult.value[1].value = SQUAT_CONFIG.riskThresholds.maxTorsoLean + 1
  /\ fnResult.value[2].text = "Insufficient depth"
  /\ fnResult.value[2].marker = "target: <"

\* C15: without a callback nothing is reported; with one, the k-th report is
\* k / frameCount and is made after the listener of frame k-1 has run and
\* before frame k is sought, so the reports are strictly increasing and lie
\* in (0, 1]; a run that leaves the loop through its end has reported once
\* for each of its frameCount frames, the last report being 1.
C15_ProgressOncePerFrame ==
  /\ ~onProgress => progressLog = <<>>
  /\ \A k \in 1..Len(progressLog) :
       /\ progressLog[k] = <<k, frameCount>>
       /\ 0 < progressLog[k][1]
       /\ progressLog[k][1] <= progressLog[k][2]
  /\ \A k \in 1..(Len(progressLog) - 1) :
       progressLog[k][1] * progressLog[k + 1][2] < progressLog[k + 1][1] * progressLog[k][2]
  /\ Len(progressLog) <= Len(resultsLog)
  /\ onProgress =>
       /\ Len(seekLog) <= Len(progressLog) + 1
       /\ Len(resultsLog) <= Len(progressLog) + 1
       /\ (Len(resultsLog) = Len(progressLog) + 1) => pc = "stuck"
       /\ (LoopCompleted /\ frameCount >= 1) =>
            /\ Len(progressLog) = frameCount
            /\ progressLog[frameCount][1] = progressLog[frameCount][2]

C15_Witness ==
  /\ onProgress
  /\ promise = "resolved"
  /\ frameCount = 3
  /\ progressLog = <<(<<1, 3>>), (<<2, 3>>), (<<3, 3>>)>>

\* C16: for every frameCount >= 1 (1 included) and duration >= 0, the time
\* point of frame i is a defined number within [0, duration], is 0 for the
\* first frame and duration for the last, and is not above the time point of
\* frame i + 1.
C16_TimePointsSpanDuration ==
  (fnArgs.fn = "timePoint" /\ fnResult # NoCall) =>
    LET t == fnResult.value
        d == fnArgs.duration
        last == fnArgs.frameCount - 1
        next == timePoint(d, fnArgs.i + 1, fnArgs.frameCount)
    IN /\ IsFiniteNumber(t)
       /\ 0 <= t.num
       /\ t.num <= d * t.den
       /\ fnArgs.i = 0 => t.num = 0
       /\ fnArgs.i = last => t.num = d * t.den
       /\ fnArgs.i < last => t.num * next.den <= next.num * t.den

\* C17: getExerciseConfig returns the squat config for every letter-case
\* variant of "squat", the deadlift config for every letter-case variant of
\* "deadlift" and null for every other name, and getSupportedExercises
\* returns <<"squat", "deadlift">>.
C17_RegistryLookup ==
  /\ (fnArgs.fn = "getExerciseConfig" /\ fnResult # NoCall) =>
       fnResult.value =
         IF fnArgs.name \in CaseVariants(SquatKey) THEN SQUAT_CONFIG
         ELSE IF fnArgs.name \in CaseVariants(DeadliftKey) THEN DEADLIFT_CONFIG
         ELSE NULL
  /\ (fnArgs.fn = "getSupportedExercises" /\ fnResult # NoCall) =>
       fnResult.value = <<SquatKey, DeadliftKey>>

\* C18: calculateAngleFromVertical returns an angle in [0, 90] degrees, 0 for
\* two points on a vertical line (dx = 0, dy # 0) and 90 for two points on a
\* horizontal line (dy = 0, dx # 0).
C18_AngleFromVertical ==
  (fnArgs.fn = "calculateAngleFromVertical" /\ fnResult # NoCall) =>
    LET dx == fnArgs.point2.x - fnArgs.point1.x
        dy == fnArgs.point2.y - fnArgs.point1.y
    IN /\ 0 <= fnResult.value
       /\ fnResult.value <= 90000
       /\ (dx = 0 /\ dy # 0) => fnResult.value = 0
       /\ (dy = 0 /\ dx # 0) => fnResult.value = 90000

\* C19: calculateAngle returns a number in [0, 180] degrees, never NaN, for
\* every triple of points, a triple whose first or last point coincides with
\* the vertex included.
C19_AngleNeverNaN ==
  (fnArgs.fn = "calculateAngle" /\ fnResult # NoCall) =>
    /\ fnResult.value # NaN
    /\ 0 <= fnResult.value
    /\ fnResult.value <= 180000

\* What the listener leaves in a run's array after receiving these landmarks
\* one after the other, starting from the empty array.
RECURSIVE Replay(_, _, _)
Replay(delivered, config, v) ==
  IF Len(delivered) = 0 THEN <<>>
  ELSE onResults(delivered[Len(delivered)],
                 Replay(SubSeq(delivered, 1, Len(delivered) - 1), config, v),
                 config, v).metrics

\* The report of a run on its own: step 5 applied to the metrics of the
\* landmarks it received.
ReportAlone(run) ==
  LET metrics == Replay(run.landmarksLog, run.exerciseConfig, run.variant)
      keyPositions == identifyKeyPositions(metrics, run.exerciseConfig)
      temporalAnalysis == analyzeTemporalPatterns(metrics, keyPositions, run.exerciseConfig)
  IN [ exerciseType |-> run.exerciseConfig.name,
       frameCount |-> Len(metrics),
       duration |-> run.duration,
       keyPositions |-> keyPositions,
       temporalAnalysis |-> temporalAnalysis,
       riskFlags |-> detectExerciseRiskFlags(temporalAnalysis, run.exerciseConfig) ]

\* The rejection of a run on its own, from its arguments and the failures it
\* met.
ErrorAlone(run) ==
  IF run.exerciseConfig = UNDEFINED
  THEN UnsupportedError(run.exerciseType, EXERCISE_CONFIGS_KEYS)
  ELSE IF run.variant = "ts" /\ ~run.contextOk THEN CanvasError
  ELSE IF run.failure = "load" THEN LoadError
  ELSE IF run.failure = "init" THEN InitError(run.variant)
  ELSE IF run.poseState = "closed" /\ run.landmarksLog # <<>>
          /\ Replay(run.landmarksLog, run.exerciseConfig, run.variant) = <<>>
       THEN PoseNotDetectedError
  ELSE IF run.poseState = "closed" /\ run.frameCount = 0 THEN PoseNotDetectedError
  ELSE TypeError

\* A run holds what it would hold on its own.
RunIsolated(run) ==
  /\ run.exerciseConfig = GetProperty(EXERCISE_CONFIGS_OWN, toLowerCase(run.exerciseType))
       \/ run.pc = "idle"
  /\ run.allFramesMetrics =
       IF run.landmarksLog = <<>> THEN <<>>
       ELSE Replay(run.landmarksLog, run.exerciseConfig, run.variant)
  /\ run.promise = "resolved" => run.report = ReportAlone(run)
  /\ run.promise = "rejected" => run.error = ErrorAlone(run)
  /\ run.promise # "resolved" => run.report = NULL

\* C20: with two runs interleaved at their suspension points, each run's
\* accepted metrics, report and rejection are those it produces on its own
\* from its own arguments and the landmarks it received itself, and the
\* registry keeps the two configs it was created with.
C20_RunsDoNotInterfere ==
  /\ registry = EXERCISE_CONFIGS_OWN
  /\ RunIsolated(RunState)
  /\ parked # NoRun => RunIsolated(parked)

\* Both runs are waiting for the estimator on their second frame, each with
\* one accepted frame of its own exercise.
C20_Witness ==
  /\ parked # NoRun
  /\ pc = "sending"
  /\ parked.pc = "sending"
  /\ exerciseConfig = SQUAT_CONFIG
  /\ parked.exerciseConfig = DEADLIFT_CONFIG
  /\ i = 1
  /\ parked.i = 1
  /\ Len(allFramesMetrics) = 1
  /\ Len(parked.allFramesMetrics) = 1
  /\ allFramesMetrics # parked.allFramesMetrics

\* A change of stage the view is meant to make, with what it brings about:
\* upload -> preview, preview -> analyzing with the error cleared,
\* analyzing -> results with results set, analyzing -> preview with the error
\* set and results unset, and the reset to upload.
ListedTransition(v, w) ==
  \/ v.stage = "upload" /\ w.stage = "preview"
  \/ v.stage = "preview" /\ w.stage = "analyzing" /\ w.error = NULL
  \/ v.stage = "analyzing" /\ w.stage = "results" /\ w.results # NULL
  \/ v.stage = "analyzing" /\ w.stage = "preview" /\ w.error # NULL /\ w.results = NULL
  \/ w.stage = "upload"

\* The step starts a handleAnalyze call, selects a video, ends a call.
AnalyzeStarts == Len(handleAnalyzeCalls') > Len(handleAnalyzeCalls)

VideoSelected == view'.videoUrl # view.videoUrl /\ view'.videoUrl # NULL

AnalyzeEnds == Len(handleAnalyzeCalls') < Len(handleAnalyzeCalls)

\* C21: the view starts in 'upload'; its stage changes only by the listed
\* transitions; selecting a video moves it to 'preview'; Analyze moves it to
\* 'analyzing' with the error cleared and calls the analysis with the
\* selected file, the selected exercise type and 8 samples; a call that ends
\* leaves the view in 'results' with results set, or in 'preview' with the
\* error set and results unset.
C21_StageTransitions ==
  /\ view.stage = "upload"
  /\ [][ /\ view'.stage # view.stage => ListedTransition(view, view')
         /\ VideoSelected => view'.stage = "preview"
         /\ AnalyzeStarts =>
              /\ view'.stage = "analyzing"
              /\ view'.error = NULL
              /\ LET call == handleAnalyzeCalls'[Len(handleAnalyzeCalls')]
                 IN /\ call.videoFile = view.videoFile
                    /\ call.exerciseType = view.exerciseType
                    /\ call.frameCount = 8
         /\ AnalyzeEnds =>
              \/ view'.stage = "results" /\ view'.results # NULL
              \/ view'.stage = "preview" /\ view'.error # NULL /\ view'.results = NULL
       ]_vars

\* C22: whenever handleUploadAnother is handled (the view returns to
\* 'upload'), videoFile, videoUrl, exerciseType, results and error are all
\* null afterwards, no URL is created, and the one URL revoked is the URL
\* created when the current video was selected.
C22_UploadAnotherResets ==
  [][ (view.stage # "upload" /\ view'.stage = "upload") =>
        /\ view'.videoFile = NULL
        /\ view'.videoUrl = NULL
        /\ view'.exerciseType = NULL
        /\ view'.results = NULL
        /\ view'.error = NULL
        /\ objectUrls'.created = objectUrls.created
        /\ objectUrls'.revoked = objectUrls.revoked \cup {onVideoSelectedCall.url}
        /\ onVideoSelectedCall.url \notin objectUrls.revoked
    ]_vars

\* The view has been reset after a video was selected, and the URL of that
\* selection is revoked.
C22_Witness ==
  /\ view.stage = "upload"
  /\ onVideoSelectedCall # NoCall
  /\ onVideoSelectedCall.url \in objectUrls.revoked

\* A file passes the three checks: an allowed MIME type, at most 100MB, at
\* most 30 seconds (durations are tenths of a second).
PassesChecks(file) ==
  /\ file.type \in {"video/mp4", "video/quicktime", "video/x-m4v"}
  /\ file.size <= 104857600
  /\ file.duration <= 300

\* The error of the first failing check of a file: format, then size, then
\* duration.
FirstFailingCheck(file) ==
  IF file.type \notin {"video/mp4", "video/quicktime", "video/x-m4v"}
  THEN "Please upload a .mp4 or .mov file"
  ELSE IF file.size > 104857600 THEN "File size must be less than 100MB"
  ELSE "Video must be MAX_DURATION seconds or less"

\* C23: VideoUploader calls onVideoSelected only with a file that passes the
\* three checks (the limits themselves pass) and with the exercise type
\* selected in the uploader at the moment of the call; once a file has
\* failed a check, the error shown is the error of its first failing check,
\* whatever error was shown before.
C23_UploaderValidates ==
  /\ onVideoSelectedCall # NoCall =>
       /\ PassesChecks(onVideoSelectedCall.file)
       /\ onVideoSelectedCall.selected # NULL =>
            onVideoSelectedCall.exerciseType = onVideoSelectedCall.selected
  /\ (handleFileEvent # NoCall /\ handleFileEvent.event \in {"returned", "rejected"}) =>
       /\ ~PassesChecks(handleFileEvent.file)
       /\ uploader.error # NULL
       /\ uploader.error.message = FirstFailingCheck(handleFileEvent.file)

\* The schemes the sanitizer is meant to block.
BlockedSchemes == UrlSchemes \ {<<>>, <<"b","l","o","b",":">>, <<"B","L","O","B",":">>}

\* url parses, relative to the page location, to a URL of protocol 'blob:'.
ParsesToBlob(url, href) ==
  LET parsedUrl == NewURL(url, NewURL(href, NoBase))
  IN parsedUrl # ParseFailure /\ Protocol(parsedUrl) = BlobProtocol

\* C24: sanitizeVideoUrl(url) returns url unchanged when url parses, relative
\* to the page location, to a URL of protocol 'blob:', and returns the empty
\* string for every other input: javascript:, data:, http:, https:, file:
\* and vbscript: URLs, the empty string and strings that do not parse.  It
\* never throws: the result is always a string.
C24_SanitizerKeepsOnlyBlob ==
  (fnArgs.fn = "sanitizeVideoUrl" /\ fnResult # NoCall) =>
    /\ fnResult.value \in Urls \cup {EmptyString}
    /\ ParsesToBlob(fnArgs.url, fnArgs.href) => fnResult.value = fnArgs.url
    /\ ~ParsesToBlob(fnArgs.url, fnArgs.href) => fnResult.value = EmptyString
    /\ (\E pre \in UrlPrefixes, sch \in BlockedSchemes, rest \in UrlRests :
          fnArgs.url = pre \o sch \o rest) => fnResult.value = EmptyString
    /\ (fnArgs.url = EmptyString /\ fnArgs.href # <<"b","l","o","b",":","h","t","t","p",":","/","/","h","/","u">>)
         => fnResult.value = EmptyString
    /\ NewURL(fnArgs.url, NewURL(fnArgs.href, NoBase)) = ParseFailure
         => fnResult.value = EmptyString

\* A blob URL written in capitals or after a space is returned unchanged.
C24_Witness ==
  /\ fnArgs.fn = "sanitizeVideoUrl"
  /\ fnResult # NoCall
  /\ fnResult.value = fnArgs.url
  /\ Len(fnArgs.url) >= 5
  /\ SubSeq(fnArgs.url, 1, 5) # BlobProtocol

\* C25: VideoPreview never renders a video element whose src is a non-blob
\* URL: a javascript:, data:, http:, https:, file: or vbscript: URL handed
\* in as videoUrl is not the src of the element, and a URL that parses to
\* protocol 'blob:' is rendered unchanged.
C25_PreviewRendersOnlyBlob ==
  (fnArgs.fn = "VideoPreview" /\ fnResult # NoCall) =>
    /\ ParsesToBlob(fnArgs.url, fnArgs.href) => fnResult.value = fnArgs.url
    /\ (\E pre \in UrlPrefixes, sch \in BlockedSchemes, rest \in UrlRests :
          fnArgs.url = pre \o sch \o rest) => fnResult.value # fnArgs.url

\* The distance between a and b.
Distance(a, b) == IF a >= b THEN a - b ELSE b - a

\* rate is the quotient num / den rounded to the nearest whole unit.
IsRounded(rate, num, den) == 2 * Distance(rate * den, num) <= Abs(den)

\* C26: in a non-null temporal analysis hipRiseRate and shoulderRiseRate are
\* the height at the last frame of the active phase minus the height at its
\* first frame, divided by the number of frames of the inclusive phase and
\* rounded to 4 decimals; riseRateRatio is hipRiseRate / shoulderRiseRate
\* rounded to 2 decimals, or 0 when the rounded shoulderRiseRate is 0, and then
\* no hips-rise-first flag is emitted however large hipRiseRate is.
C26_RiseRates ==
  (fnArgs.fn = "analyzeTemporalPatterns" /\ fnResult # NoCall /\ fnResult.value # NULL) =>
    LET first == fnArgs.allFramesMetrics[fnArgs.startIdx + 1]
        last == fnArgs.allFramesMetrics[fnArgs.endIdx + 1]
        frames == fnArgs.endIdx - fnArgs.startIdx + 1
        ta == fnResult.value
    IN /\ IsRounded(ta.hipRiseRate, (last.hipHeight - first.hipHeight) * 10, frames)
       /\ IsRounded(ta.shoulderRiseRate,
                    (last.shoulderHeight - first.shoulderHeight) * 10, frames)
       /\ ta.shoulderRiseRate # 0 =>
            IsRounded(ta.riseRateRatio, ta.hipRiseRate * 100, ta.shoulderRiseRate)
       /\ ta.shoulderRiseRate = 0 =>
            /\ ta.riseRateRatio = 0
            /\ \A k \in 1..Len(fnResult.riskFlags) : fnResult.riskFlags[k].label # "ratio: "

\* The hips rise over the phase while the shoulders end where they started.
C26_Witness ==
  /\ fnArgs.fn = "analyzeTemporalPatterns"
  /\ fnResult # NoCall
  /\ fnResult.value # NULL
  /\ fnResult.value.shoulderRiseRate = 0
  /\ fnResult.value.hipRiseRate >= 500
  /\ fnResult.value.riseRateRatio = 0

\* v is the greatest (sign = 1) or least (sign = -1) value of a field over
\* every frame of metrics.
IsExtremeOfAll(v, metrics, field, sign) ==
  /\ \E k \in 1..Len(metrics) : metrics[k][field] = v
  /\ \A k \in 1..Len(metrics) : sign * metrics[k][field] <= sign * v

\* metrics with barPathDeviation d in frame k (0-based).
WithBarPathDeviation(metrics, k, d) == [metrics EXCEPT ![k + 1].barPathDeviation = d]

\* C27: the squat's maxTorsoLean, maxKneeForwardTravel, neckExtensionMax and
\* minHipAngle and the deadlift's maxBackAngle, backAngleChange and
\* neckExtensionMax are reductions over every frame of the sequence, frames
\* outside the active phase included; the deadlift's avgBarPathDeviation and
\* maxBarPathDeviation depend only on the frames from startOfPull.frame to
\* lockout.frame: another barPathDeviation in a frame outside the pull leaves
\* both unchanged.
C27_ReductionRanges ==
  (fnArgs.fn = "analyzeTemporalPatterns" /\ fnResult # NoCall /\ fnResult.value # NULL) =>
    LET ms == fnArgs.allFramesMetrics
        ta == fnResult.value
    IN IF fnArgs.exerciseConfig.name = "Squat"
       THEN /\ IsExtremeOfAll(ta.maxTorsoLean, ms, "torsoLean", 1)
            /\ IsExtremeOfAll(ta.maxKneeForwardTravel, ms, "kneeForwardTravel", 1)
            /\ IsExtremeOfAll(ta.neckExtensionMax, ms, "neckAngle", 1)
            /\ IsExtremeOfAll(ta.minHipAngle, ms, "hipAngle", -1)
       ELSE /\ IsExtremeOfAll(ta.maxBackAngle, ms, "backAngle", 1)
            /\ IsExtremeOfAll(ta.neckExtensionMax, ms, "neckAngle", 1)
            /\ \E least \in {ms[k].backAngle : k \in 1..Len(ms)} :
                 /\ IsExtremeOfAll(least, ms, "backAngle", -1)
                 /\ ta.backAngleChange = ta.maxBackAngle - least
            /\ IsExtremeOfAll(ta.maxBarPathDeviation,
                              SubSeq(ms, fnArgs.startIdx + 1, fnArgs.endIdx + 1),
                              "barPathDeviation", 1)
            /\ \A k \in (0..(Len(ms) - 1)) \ (fnArgs.startIdx..fnArgs.endIdx) :
                 \A d \in {0, ms[k + 1].barPathDeviation + 1000} :
                   LET other ==
                         calculateTemporalPatterns(
                           WithBarPathDeviation(ms, k, d),
                           KeyPositionsAt(WithBarPathDeviation(ms, k, d),
                                          fnArgs.exerciseConfig,
                                          fnArgs.startIdx, fnArgs.endIdx),
                           fnArgs.exerciseConfig)
                   IN /\ other.avgBarPathDeviation = ta.avgBarPathDeviation
                      /\ other.maxBarPathDeviation = ta.maxBarPathDeviation

\* The frame before the pull has the greatest back angle and the greatest
\* bar path deviation of the sequence.
C27_Witness ==
  /\ fnArgs.fn = "analyzeTemporalPatterns"
  /\ fnResult # NoCall
  /\ fnResult.value # NULL
  /\ fnArgs.exerciseConfig = DEADLIFT_CONFIG
  /\ fnArgs.startIdx = 1
  /\ fnArgs.endIdx = 2
  /\ fnResult.value.maxBackAngle = fnArgs.allFramesMetrics[1].backAngle
  /\ fnResult.value.maxBackAngle > fnArgs.allFramesMetrics[2].backAngle
  /\ fnResult.value.maxBackAngle > fnArgs.allFramesMetrics[3].backAngle
  /\ fnResult.value.maxBarPathDeviation < fnArgs.allFramesMetrics[1].barPathDeviation

\* C28: on a non-empty sequence every key position's frame index lies in
\* 0..length-1 and its metric fields are those of the sequence entry at that
\* index; the sequence handed in is left as it was; the squat's indices are
\* ordered 0 = setup.frame <= bottomPosition.frame <= completion.frame =
\* length-1 (the deadlift's startOfPull and lockout are not ordered).
C28_KeyPositionsWithinSequence ==
  /\ [](fnArgs.fn = "identifyKeyPositions" /\ fnResult # NoCall =>
          LET ms == fnArgs.allFramesMetrics
              kp == fnResult.value
          IN /\ \A pos \in DOMAIN kp :
                  /\ kp[pos].frame \in 0..(Len(ms) - 1)
                  /\ DOMAIN kp[pos] = DOMAIN ms[kp[pos].frame + 1] \cup {"frame"}
                  /\ \A f \in DOMAIN ms[kp[pos].frame + 1] :
                       kp[pos][f] = ms[kp[pos].frame + 1][f]
             /\ fnArgs.exerciseConfig.name = "Squat" =>
                  /\ 0 = kp.setup.frame
                  /\ kp.setup.frame <= kp.bottomPosition.frame
                  /\ kp.bottomPosition.frame <= kp.completion.frame
                  /\ kp.completion.frame = Len(ms) - 1)
  /\ [][fnArgs.fn = "identifyKeyPositions" =>
          fnArgs'.allFramesMetrics = fnArgs.allFramesMetrics]_vars

\* A deadlift whose startOfPull lies after its lockout.
C28_Witness ==
  /\ fnArgs.fn = "identifyKeyPositions"
  /\ fnResult # NoCall
  /\ fnArgs.exerciseConfig = DEADLIFT_CONFIG
  /\ fnResult.value.startOfPull.frame > fnResult.value.lockout.frame
  /\ Len(fnArgs.allFramesMetrics) = 3
  /\ fnResult.value.startOfPull = [frame |-> 2] @@ fnArgs.allFramesMetrics[3]

\* C29: when the key positions are those identifyKeyPositions returns for
\* the sequence and the temporal analysis is not null, hipRiseRate is >= 0 for
\* both exercises: the squat's active phase starts at the least hipHeight and
\* the deadlift's pull ends at the greatest hipHeight.  shoulderRiseRate and
\* riseRateRatio may be negative.
C29_HipRiseRateNotNegative ==
  ( /\ fnArgs.fn = "analyzeTemporalPatterns"
    /\ fnResult # NoCall
    /\ fnResult.value # NULL
    /\ fnArgs.keyPositions =
         identifyKeyPositions(fnArgs.allFramesMetrics, fnArgs.exerciseConfig) )
  => fnResult.value.hipRiseRate >= 0

\* The hips rise through a deadlift's pull while the shoulders drop.
C29_Witness ==
  /\ fnArgs.fn = "analyzeTemporalPatterns"
  /\ fnResult # NoCall
  /\ fnResult.value # NULL
  /\ fnArgs.exerciseConfig = DEADLIFT_CONFIG
  /\ fnArgs.keyPositions =
       identifyKeyPositions(fnArgs.allFramesMetrics, fnArgs.exerciseConfig)
  /\ fnResult.value.hipRiseRate > 0
  /\ fnResult.value.shoulderRiseRate < 0
  /\ fnResult.value.riseRateRatio < 0

\* C30: with the view driven through VideoPreview's controls no user action
\* is enabled while the stage is 'analyzing' (Analyze is disabled, Remove is
\* hidden, Upload Another Video needs results), so at most one analysis is in
\* flight, an analysis in flight belongs to the selection the view still
\* shows in stage 'analyzing' (its result or error is never applied to a view
\* that was reset or re-selected meanwhile), results is non-null only in
\* stage 'results', and the stages 'preview', 'analyzing' and 'results' have
\* a selected file, URL and exercise type.
C30_OneAnalysisAtATime ==
  /\ isAnalyzing =>
       ~AnalyzeEnabled /\ ~RemoveShown /\ (UploadAnotherShown => view.results # NULL)
  /\ Len(handleAnalyzeCalls) <= 1
  /\ \A k \in 1..Len(handleAnalyzeCalls) :
       /\ view.stage = "analyzing"
       /\ handleAnalyzeCalls[k].videoUrl = view.videoUrl
       /\ handleAnalyzeCalls[k].videoFile = view.videoFile
  /\ view.results # NULL => view.stage = "results"
  /\ view.stage \in {"preview", "analyzing", "results"} =>
       view.videoFile # NULL /\ view.videoUrl # NULL /\ view.exerciseType # NULL

====
